---------------------------- MODULE Spec2Model ----------------------------
(***************************************************************************)
(* GT-IA: the Tax Regime Engine (src/py/tax_engine.py) and the Opportunity *)
(* Detector (src/py/credit_recovery.py, CreditRecoveryAgent).              *)
(*                                                                         *)
(* Python's Decimal is exact; a Decimal d is modelled as the pair          *)
(*   [w |-> floor(d), f |-> (d - floor(d)) * 10^8]                         *)
(* which is exact for every amount the code forms from inputs that carry   *)
(* at most two fractional digits (the largest product is                   *)
(* revenue * 0.18 * 0.0925: 2 + 2 + 4 digits).                             *)
(***************************************************************************)
EXTENDS Integers, Sequences, FiniteSets, TLC

\* ------------------------------------------------------------------------
\* Exact decimal arithmetic
\* ------------------------------------------------------------------------

FracUnit == 10^8
CentUnit == 10^6
HalfCent == 5 * 10^5

Dec(w, f) == [w |-> w + (f \div FracUnit), f |-> f % FracUnit]

\* units and cents, e.g. Money(21530, 0) = 21530.00, Money(0, 5) = 0.05
Money(units, cents) == Dec(units, cents * CentUnit)

Zero == Money(0, 0)

DAdd(a, b) == Dec(a.w + b.w, a.f + b.f)

DSub(a, b) == Dec(a.w - b.w, a.f - b.f)

DLt(a, b) == a.w < b.w \/ (a.w = b.w /\ a.f < b.f)

DGt(a, b) == DLt(b, a)

DMax(a, b) == IF DLt(a, b) THEN b ELSE a

\* a * k for an integer 0 <= k < 10^5, the fraction taken in two halves of
\* four digits so that no product leaves the machine integers
HalfUnit == 10^4

DTimes(a, k) ==
    LET hi == (a.f \div HalfUnit) * k
        lo == (a.f % HalfUnit) * k
    IN  Dec(a.w * k + (hi \div HalfUnit), (hi % HalfUnit) * HalfUnit + lo)

\* a / 10^e, exact when a has at most 8 - e fractional digits
DShift(a, e) ==
    [w |-> a.w \div 10^e,
     f |-> (a.w % 10^e) * (FracUnit \div 10^e) + (a.f \div 10^e)]

\* a * (k / 10^e): Decimal multiplication by a literal such as Decimal("0.0925")
Mul(a, rate) == DTimes(DShift(a, rate.e), rate.k)

\* Decimal.quantize(Decimal("0.01"), rounding=ROUND_HALF_UP): ties away from zero
QuantizeHalfUp(a) ==
    LET c  == a.f \div CentUnit
        r  == a.f % CentUnit
        up == IF a.w >= 0 THEN r >= HalfCent ELSE r > HalfCent
    IN  Dec(a.w, (c + (IF up THEN 1 ELSE 0)) * CentUnit)

\* ROUND_HALF_EVEN: ties to the even cent
QuantizeHalfEven(a) ==
    LET c  == a.f \div CentUnit
        r  == a.f % CentUnit
        up == r > HalfCent \/ (r = HalfCent /\ c % 2 = 1)
    IN  Dec(a.w, (c + (IF up THEN 1 ELSE 0)) * CentUnit)

\* the precision and rounding of the decimal context, which a quantize that
\* is given no rounding reads. The context outlives every call and any code
\* may set it. Its flags, which no result reads, are left out.
VARIABLE context

\* the settings the decimal module starts with
DefaultContext == [prec |-> 28, rounding |-> "ROUND_HALF_EVEN"]

\* Decimal.quantize(Decimal("0.01")): rounded as the context says at the
\* time of the call
QuantizeDefault(a) ==
    CASE context.rounding = "ROUND_HALF_EVEN" -> QuantizeHalfEven(a)
      [] context.rounding = "ROUND_HALF_UP"   -> QuantizeHalfUp(a)

\* ------------------------------------------------------------------------
\* Python values of the numeric fields of a request
\* ------------------------------------------------------------------------

Num(d)  == [t |-> "num", v |-> d]
NoneVal == [t |-> "none", v |-> Zero]       \* None
BadStr  == [t |-> "str", v |-> Zero]        \* a non-numeric string, e.g. "abc"
Absent  == [t |-> "absent", v |-> Zero]     \* the key is not in the dict

Categories == {"energia_eletrica", "aluguel_predios", "maquinas_equipamentos",
               "insumos_diretos", "material_escritorio", "outros"}

NoKeys == [c \in Categories |-> Absent]

\* costs: one amount (t # "dict") or a breakdown by category (t = "dict")
Scalar(val) == [t |-> val.t, v |-> val.v, d |-> NoKeys]
CostDict(d) == [t |-> "dict", v |-> Zero, d |-> d]

Keys(d) == {c \in Categories : d[c].t # "absent"}

\* dict.get(key, 0)
GetOrZero(val) == IF val.t = "absent" THEN Num(Zero) ELSE val

\* ------------------------------------------------------------------------
\* TaxEngine (src/py/tax_engine.py)
\* ------------------------------------------------------------------------

SN == "Simples Nacional"
LP == "Lucro Presumido"
LR == "Lucro Real"

RegimeNames == {SN, LP, LR}

\* Decimal literals of the engine, as k / 10^e
RATE_INSS           == [k |-> 20,  e |-> 2]    \* Decimal("0.20")
RATE_PIS_CUM        == [k |-> 65,  e |-> 4]    \* Decimal("0.0065")
RATE_COFINS_CUM     == [k |-> 300, e |-> 4]    \* Decimal("0.0300")
RATE_PIS_NONCUM     == [k |-> 165, e |-> 4]    \* Decimal("0.0165")
RATE_COFINS_NONCUM  == [k |-> 760, e |-> 4]    \* Decimal("0.0760")
PRESUMPTION_SERVICE == [k |-> 32,  e |-> 2]    \* Decimal("0.32")
PRESUMPTION_OTHER   == [k |-> 8,   e |-> 2]    \* Decimal("0.08")
RATE_IR_BASIC       == [k |-> 15,  e |-> 2]    \* Decimal("0.15")
RATE_IR_ADDITIONAL  == [k |-> 10,  e |-> 2]    \* Decimal("0.10")
RATE_CSLL           == [k |-> 9,   e |-> 2]    \* Decimal("0.09")
RATE_ISS_DEFAULT    == [k |-> 50,  e |-> 3]    \* Decimal("5.0") / Decimal("100")
RATE_SIMPLES_LOW    == [k |-> 10,  e |-> 2]    \* Decimal("0.10")
RATE_SIMPLES_HIGH   == [k |-> 30,  e |-> 2]    \* Decimal("0.30")

IR_THRESHOLD   == Money(20000, 0)
SIMPLES_CEILING == Money(3600000, 0)

\* _to_decimal: None -> 0.00, a number -> its value; Decimal("abc") raises
to_decimal_raises(val) == val.t = "str"

to_decimal(val) == IF val.t = "num" THEN val.v ELSE Zero

\* calculate_inss_patronal with a slip: rounded as the context does by default
calculate_inss_patronal_half_even(payroll, regime) ==
    IF regime = "SIMPLES_NACIONAL" THEN Zero
    ELSE QuantizeHalfEven(Mul(payroll, RATE_INSS))

calculate_inss_patronal(payroll, regime) ==
    IF regime = "SIMPLES_NACIONAL" THEN Zero
    ELSE QuantizeHalfUp(Mul(payroll, RATE_INSS))

credit_categories == {"energia_eletrica", "aluguel_predios",
                      "maquinas_equipamentos", "insumos_diretos"}

RECURSIVE SumValues(_, _)
SumValues(d, keys) ==
    IF keys = {} THEN Zero
    ELSE LET c == CHOOSE x \in keys : TRUE
         IN  DAdd(to_decimal(d[c]), SumValues(d, keys \ {c}))

\* CreditBase with a slip: every category of the breakdown gives credit
CreditBaseAllCategories(detailed_costs) ==
    SumValues(detailed_costs, Keys(detailed_costs))

\* total_base_credito: the values of the categories that give credit
CreditBase(detailed_costs) ==
    SumValues(detailed_costs, Keys(detailed_costs) \cap credit_categories)

\* NetOfCredit with a slip: the debit less the credit, as it comes
NetOfCreditUnfloored(debit, credit) == DSub(debit, credit)

\* max(debit - credit, Decimal("0.00"))
NetOfCredit(debit, credit) == DMax(DSub(debit, credit), Zero)

calculate_pis_cofins(revenue, regime, detailed_costs) ==
    IF regime = "LUCRO_PRESUMIDO" THEN
        [pis           |-> QuantizeHalfUp(NetOfCredit(Mul(revenue, RATE_PIS_CUM), Zero)),
         cofins        |-> QuantizeHalfUp(NetOfCredit(Mul(revenue, RATE_COFINS_CUM), Zero)),
         total_credits |-> Zero]
    ELSE IF regime = "LUCRO_REAL" THEN
        LET pis_debit     == Mul(revenue, RATE_PIS_NONCUM)
            cofins_debit  == Mul(revenue, RATE_COFINS_NONCUM)
            has_costs     == Keys(detailed_costs) # {}
            base          == CreditBase(detailed_costs)
            pis_credit    == IF has_costs THEN Mul(base, RATE_PIS_NONCUM) ELSE Zero
            cofins_credit == IF has_costs THEN Mul(base, RATE_COFINS_NONCUM) ELSE Zero
        IN  [pis           |-> QuantizeHalfUp(NetOfCredit(pis_debit, pis_credit)),
             cofins        |-> QuantizeHalfUp(NetOfCredit(cofins_debit, cofins_credit)),
             total_credits |-> QuantizeHalfUp(DAdd(pis_credit, cofins_credit))]
    ELSE [pis |-> Zero, cofins |-> Zero, total_credits |-> Zero]

\* AdditionalIr with a slip: the surtax taken on the whole base above the threshold
AdditionalIrWholeBase(base) ==
    IF DGt(base, IR_THRESHOLD) THEN Mul(base, RATE_IR_ADDITIONAL) ELSE Zero

\* additional_ir: 10% of the part of the base above the threshold
AdditionalIr(base) ==
    IF DGt(base, IR_THRESHOLD) THEN Mul(DSub(base, IR_THRESHOLD), RATE_IR_ADDITIONAL)
    ELSE Zero

\* Profit with a slip: a loss taken as a negative base
ProfitUnfloored(revenue, costs) == DSub(revenue, costs)

\* profit = revenue - costs, and 0.00 when that is negative
Profit(revenue, costs) == DMax(DSub(revenue, costs), Zero)

\* PresumedCsllBase with a slip: the CSLL base follows the activity as the IR base does
PresumedCsllBaseByActivity(revenue, is_service) ==
    Mul(revenue, IF is_service THEN PRESUMPTION_SERVICE ELSE PRESUMPTION_OTHER)

\* calculation_base_csll = revenue * Decimal("0.32"), service or not
PresumedCsllBase(revenue, is_service) == Mul(revenue, PRESUMPTION_SERVICE)

calculate_irrf_csll(revenue, costs, regime, is_service) ==
    IF regime = "SIMPLES_NACIONAL" THEN [irpj |-> Zero, csll |-> Zero]
    ELSE
        LET presumption == IF is_service THEN PRESUMPTION_SERVICE ELSE PRESUMPTION_OTHER
            profit      == Profit(revenue, costs)
            base_ir     == IF regime = "LUCRO_PRESUMIDO" THEN Mul(revenue, presumption)
                           ELSE IF regime = "LUCRO_REAL" THEN profit
                           ELSE Zero
            base_csll   == IF regime = "LUCRO_PRESUMIDO" THEN PresumedCsllBase(revenue, is_service)
                           ELSE IF regime = "LUCRO_REAL" THEN profit
                           ELSE Zero
            irpj        == DAdd(Mul(base_ir, RATE_IR_BASIC), AdditionalIr(base_ir))
            csll        == Mul(base_csll, RATE_CSLL)
        IN  [irpj |-> QuantizeHalfUp(irpj), csll |-> QuantizeHalfUp(csll)]

\* IssRate with a slip: city_rate taken as a fraction already
IssRateAsFraction(city_rate) == city_rate

\* rate = _to_decimal(city_rate) / Decimal("100"): city_rate is a percentage
IssRate(city_rate) == [k |-> city_rate.k, e |-> city_rate.e + 2]

\* city_rate: float = 5.0
CITY_RATE_DEFAULT == [k |-> 50, e |-> 1]

calculate_iss(revenue, rate) == QuantizeHalfUp(Mul(revenue, rate))

\* SimplesRate with a slip: the ceiling itself pays the higher rate
SimplesRateCeilingInclusive(revenue) ==
    IF DLt(revenue, SIMPLES_CEILING) THEN RATE_SIMPLES_LOW ELSE RATE_SIMPLES_HIGH

\* simples_rate: 10%, or 30% above the ceiling
SimplesRate(revenue) ==
    IF DGt(revenue, SIMPLES_CEILING) THEN RATE_SIMPLES_HIGH ELSE RATE_SIMPLES_LOW

\* min(regimes, key=regimes.get) over the dict's insertion order SN, LP, LR:
\* a later regime wins only when strictly smaller
BestRegime(regimes) ==
    LET b1 == IF DLt(regimes[LP], regimes[SN]) THEN LP ELSE SN
    IN  IF DLt(regimes[LR], regimes[b1]) THEN LR ELSE b1

MaxTotal(regimes) == DMax(DMax(regimes[SN], regimes[LP]), regimes[LR])

DMin(a, b) == IF DLt(b, a) THEN b ELSE a

MinTotal(regimes) == DMin(DMin(regimes[SN], regimes[LP]), regimes[LR])

\* str(v.quantize(Decimal("0.01"))): no rounding argument, the context's default
ReportTotal(v) == QuantizeDefault(v)

ReportSavings(regimes) == QuantizeDefault(DSub(MaxTotal(regimes), MinTotal(regimes)))

\* annual_data = [revenue, payroll, costs]; a missing key reads as 0
simulate_raises(annual_data) ==
    \/ to_decimal_raises(annual_data.revenue)
    \/ to_decimal_raises(annual_data.payroll)
    \/ IF annual_data.costs.t = "dict"
       THEN \E c \in Keys(annual_data.costs.d) : to_decimal_raises(annual_data.costs.d[c])
       ELSE to_decimal_raises(annual_data.costs)

\* TotalParamCosts with a slip: only the categories that give credit are costs
TotalParamCostsEligibleOnly(costs_input) ==
    IF costs_input.t = "dict" THEN CreditBase(costs_input.d)
    ELSE to_decimal(costs_input)

TotalParamCosts(costs_input) ==
    IF costs_input.t = "dict" THEN SumValues(costs_input.d, Keys(costs_input.d))
    ELSE to_decimal(costs_input)

simulate_regimes(annual_data) ==
    LET revenue        == to_decimal(annual_data.revenue)
        payroll        == to_decimal(annual_data.payroll)
        costs_input    == annual_data.costs
        detailed_costs == IF costs_input.t = "dict" THEN costs_input.d ELSE NoKeys
        total_costs    == TotalParamCosts(costs_input)
        total_simples  == Mul(revenue, SimplesRate(revenue))
        lp_inss        == calculate_inss_patronal(payroll, "LUCRO_PRESUMIDO")
        lp_piscofins   == calculate_pis_cofins(revenue, "LUCRO_PRESUMIDO", detailed_costs)
        lp_ir_csll     == calculate_irrf_csll(revenue, total_costs, "LUCRO_PRESUMIDO", TRUE)
        lp_iss         == calculate_iss(revenue, RATE_ISS_DEFAULT)
        total_presumido == DAdd(DAdd(DAdd(DAdd(DAdd(lp_inss, lp_piscofins.pis),
                               lp_piscofins.cofins), lp_ir_csll.irpj), lp_ir_csll.csll), lp_iss)
        lr_inss        == calculate_inss_patronal(payroll, "LUCRO_REAL")
        lr_piscofins   == calculate_pis_cofins(revenue, "LUCRO_REAL", detailed_costs)
        lr_ir_csll     == calculate_irrf_csll(revenue, total_costs, "LUCRO_REAL", TRUE)
        lr_iss         == calculate_iss(revenue, RATE_ISS_DEFAULT)
        total_real     == DAdd(DAdd(DAdd(DAdd(DAdd(lr_inss, lr_piscofins.pis),
                               lr_piscofins.cofins), lr_ir_csll.irpj), lr_ir_csll.csll), lr_iss)
        regimes        == [r \in RegimeNames |->
                              IF r = SN THEN total_simples
                              ELSE IF r = LP THEN total_presumido ELSE total_real]
    IN  [inputs           |-> [revenue |-> revenue, payroll |-> payroll,
                               total_costs |-> total_costs],
         credits_found_lr |-> lr_piscofins.total_credits,
         results          |-> [r \in RegimeNames |-> ReportTotal(regimes[r])],
         recommendation   |-> BestRegime(regimes),
         savings          |-> ReportSavings(regimes)]

\* calculate_retentions_on_invoice: provider_regime is a string, written as
\* its sequence of characters
LowerLetters ==
    <<"a", "b", "c", "d", "e", "f", "g", "h", "i", "j", "k", "l", "m",
      "n", "o", "p", "q", "r", "s", "t", "u", "v", "w", "x", "y", "z">>

UpperLetters ==
    <<"A", "B", "C", "D", "E", "F", "G", "H", "I", "J", "K", "L", "M",
      "N", "O", "P", "Q", "R", "S", "T", "U", "V", "W", "X", "Y", "Z">>

\* str.upper()
str_upper(x) ==
    [j \in 1..Len(x) |->
        IF \E n \in 1..Len(LowerLetters) : LowerLetters[n] = x[j]
        THEN UpperLetters[CHOOSE n \in 1..Len(LowerLetters) : LowerLetters[n] = x[j]]
        ELSE x[j]]

\* str.replace(' ', '_')
str_replace_space(x) == [j \in 1..Len(x) |-> IF x[j] = " " THEN "_" ELSE x[j]]

\* sub in x
str_contains(x, sub) ==
    \E at \in 0..(Len(x) - Len(sub)) : \A j \in 1..Len(sub) : x[at + j] = sub[j]

SIMPLES == <<"S", "I", "M", "P", "L", "E", "S">>

\* norm_regime = provider_regime.upper().replace(' ', '_'); "SIMPLES" in norm_regime
IsSimplesProvider(provider_regime) ==
    str_contains(str_replace_space(str_upper(provider_regime)), SIMPLES)

RATE_CSRF     == [k |-> 465, e |-> 4]    \* Decimal("0.0465")
RATE_INSS_RET == [k |-> 11,  e |-> 2]    \* Decimal("0.11")
RATE_IRRF_SRV == [k |-> 15,  e |-> 3]    \* Decimal("0.015")

CSRF_FLOOR == Money(10, 0)

WARN_SIMPLES    == "Prestador Simples Nacional: Dispensada retencao de IRRF/CSRF conforme IN RFB."
WARN_CSRF_FLOOR == "Valor de CSRF abaixo de R$ 10,00: Retencao dispensada."

\* CsrfWaived with a slip: an amount of exactly the floor is waived too
CsrfWaivedInclusive(csrf_calc) == ~DGt(csrf_calc, CSRF_FLOOR)

\* "if csrf_calc < Decimal("10.00")"
CsrfWaived(csrf_calc) == DLt(csrf_calc, CSRF_FLOOR)

calculate_retentions_on_invoice(val, provider_regime, city_iss_rate) ==
    LET simples   == IsSimplesProvider(provider_regime)
        csrf_calc == QuantizeHalfUp(Mul(val, RATE_CSRF))
        CSRF      == IF simples \/ CsrfWaived(csrf_calc) THEN Zero ELSE csrf_calc
        IRRF      == IF simples THEN Zero ELSE QuantizeHalfUp(Mul(val, RATE_IRRF_SRV))
        INSS      == QuantizeHalfUp(Mul(val, RATE_INSS_RET))
        ISS       == QuantizeHalfUp(Mul(val, IssRate(city_iss_rate)))
        warnings  == IF simples THEN <<WARN_SIMPLES>>
                     ELSE IF CsrfWaived(csrf_calc) THEN <<WARN_CSRF_FLOOR>>
                     ELSE <<>>
    IN  [base_value   |-> val,
         retentions   |-> [CSRF |-> CSRF, IRRF |-> IRRF, INSS |-> INSS, ISS |-> ISS],
         total_liquid |-> DSub(val, DAdd(DAdd(DAdd(CSRF, IRRF), INSS), ISS)),
         warnings     |-> warnings]

\* ------------------------------------------------------------------------
\* CreditRecoveryAgent.analyze_credits (src/py/credit_recovery.py)
\* ------------------------------------------------------------------------

\* A period of the history is the dict
\*   [period, paid_amount, paid_regime, revenue, payroll, costs]
\* period is a string, written as its sequence of characters, or NoLabel when
\* the key is missing; paid_regime is a string, or NoRegime when it is missing.
NoLabel  == <<>>
NoRegime == "<missing>"

LABEL_DEFAULT == <<"N", "/", "A">>

PeriodLabel(month_data) ==
    IF month_data.period = NoLabel THEN LABEL_DEFAULT ELSE month_data.period

\* paid = Decimal(str(...)) inside try/except: anything unparseable is 0.00
PaidAmount(month_data) ==
    IF month_data.paid_amount.t = "num" THEN month_data.paid_amount.v ELSE Zero

UsedRegime(month_data) ==
    IF month_data.paid_regime = NoRegime THEN "LUCRO_PRESUMIDO" ELSE month_data.paid_regime

\* "if not x: x = 0": a missing key, None and a zero amount are falsy; a
\* non-empty string is not
OrZeroIfFalsy(val) ==
    IF val.t \in {"absent", "none"} \/ (val.t = "num" /\ val.v = Zero)
    THEN Num(Zero) ELSE val

CostVal(month_data) ==
    IF month_data.costs.t = "absent" THEN Scalar(Num(Zero)) ELSE month_data.costs

SimInput(month_data) ==
    [revenue |-> OrZeroIfFalsy(month_data.revenue),
     payroll |-> OrZeroIfFalsy(month_data.payroll),
     costs   |-> CostVal(month_data)]

RATE_ICMS        == [k |-> 18,  e |-> 2]    \* Decimal("0.18")
RATE_MONOFASICO  == [k |-> 5,   e |-> 2]    \* Decimal("0.05")
RATE_PC_REAL     == [k |-> 925, e |-> 4]    \* Decimal("0.0925")
RATE_PC_OTHER    == [k |-> 365, e |-> 4]    \* Decimal("0.0365")

MISMATCH_FLOOR   == Money(10, 0)
MARKETING_FLOOR  == Money(100, 0)

\* PisCofinsRate with a slip: the cumulative rate for Lucro Presumido only
PisCofinsRateRealByDefault(used_regime) ==
    IF used_regime = "LUCRO_PRESUMIDO" THEN RATE_PC_OTHER ELSE RATE_PC_REAL

PisCofinsRate(used_regime) ==
    IF used_regime = "LUCRO_REAL" THEN RATE_PC_REAL ELSE RATE_PC_OTHER

\* An opportunity; src is the position of its period in the input (not a
\* field of the dict: it lets the order of the list be stated).
Opp(type, month_data, src, value, risk) ==
    [type |-> type, period |-> PeriodLabel(month_data), value |-> value,
     risk |-> risk, src |-> src]

\* Each detector yields what it appends to opportunities and what it adds to
\* total_savings.
Nothing == [opps |-> <<>>, add |-> Zero]

\* Material with a slip: the floor itself counts as material
MaterialInclusive(diff) == ~DLt(diff, MISMATCH_FLOOR)

\* "if diff > 10"
Material(diff) == DGt(diff, MISMATCH_FLOOR)

RegimeMismatch(month_data, src, sim) ==
    LET paid    == PaidAmount(month_data)
        optimal == sim.results[sim.recommendation]
        diff    == DSub(paid, optimal)
    IN  IF DGt(paid, optimal) /\ Material(diff)
        THEN [opps |-> <<Opp("REGIME_MISMATCH", month_data, src, diff, "LOW")>>,
              add  |-> diff]
        ELSE Nothing

\* CreditoInsumo with a slip: looked at only when the regime mismatch was found
CreditoInsumoUnderMismatch(month_data, src, sim) ==
    IF /\ RegimeMismatch(month_data, src, sim) # Nothing
       /\ sim.recommendation = LR /\ DGt(sim.credits_found_lr, Zero)
    THEN [opps |-> <<Opp("CREDITO_INSUMO", month_data, src, sim.credits_found_lr, "LOW")>>,
          add  |-> Zero]
    ELSE Nothing

CreditoInsumo(month_data, src, sim) ==
    IF sim.recommendation = LR /\ DGt(sim.credits_found_lr, Zero)
    THEN [opps |-> <<Opp("CREDITO_INSUMO", month_data, src, sim.credits_found_lr, "LOW")>>,
          add  |-> Zero]
    ELSE Nothing

RevDecimal(month_data) == to_decimal(OrZeroIfFalsy(month_data.revenue))

\* ExclusaoIcms with a slip: appended without looking at the amount
ExclusaoIcmsUnchecked(month_data, src) ==
    LET used   == UsedRegime(month_data)
        saving == Mul(Mul(RevDecimal(month_data), RATE_ICMS), PisCofinsRate(used))
    IN  IF used # "Simples Nacional"
        THEN [opps |-> <<Opp("EXCLUSAO_ICMS", month_data, src, saving, "LOW")>>,
              add  |-> saving]
        ELSE Nothing

ExclusaoIcms(month_data, src) ==
    LET used   == UsedRegime(month_data)
        saving == Mul(Mul(RevDecimal(month_data), RATE_ICMS), PisCofinsRate(used))
    IN  IF used # "Simples Nacional" /\ DGt(saving, Zero)
        THEN [opps |-> <<Opp("EXCLUSAO_ICMS", month_data, src, saving, "LOW")>>,
              add  |-> saving]
        ELSE Nothing

\* Monofasico with a slip: left out under Simples Nacional as the ICMS thesis is
MonofasicoExceptSimples(month_data, src) ==
    LET used   == UsedRegime(month_data)
        saving == Mul(Mul(RevDecimal(month_data), RATE_MONOFASICO), PisCofinsRate(used))
    IN  IF used # "Simples Nacional" /\ DGt(saving, Zero)
        THEN [opps |-> <<Opp("MONOFASICO", month_data, src, saving, "MEDIUM")>>,
              add  |-> saving]
        ELSE Nothing

Monofasico(month_data, src) ==
    LET saving == Mul(Mul(RevDecimal(month_data), RATE_MONOFASICO),
                      PisCofinsRate(UsedRegime(month_data)))
    IN  IF DGt(saving, Zero)
        THEN [opps |-> <<Opp("MONOFASICO", month_data, src, saving, "MEDIUM")>>,
              add  |-> saving]
        ELSE Nothing

\* Decimal(str(cost_val.get('outros', 0))): str(None) is no number
marketing_raises(month_data) ==
    LET cost_val == CostVal(month_data)
    IN  cost_val.t = "dict" /\ cost_val.d["outros"].t \in {"none", "str"}

\* CreditoMarketing with a slip: the non-cumulative rate whatever the regime used
CreditoMarketingAtRealRate(month_data, src) ==
    LET cost_val == CostVal(month_data)
        mkt_cost == to_decimal(GetOrZero(cost_val.d["outros"]))
        saving   == Mul(mkt_cost, RATE_PC_REAL)
    IN  IF cost_val.t = "dict" /\ DGt(mkt_cost, Zero) /\ DGt(saving, MARKETING_FLOOR)
        THEN [opps |-> <<Opp("CREDITO_MARKETING", month_data, src, saving, "HIGH")>>,
              add  |-> saving]
        ELSE Nothing

CreditoMarketing(month_data, src) ==
    LET cost_val == CostVal(month_data)
        mkt_cost == to_decimal(GetOrZero(cost_val.d["outros"]))
        saving   == Mul(mkt_cost, PisCofinsRate(UsedRegime(month_data)))
    IN  IF cost_val.t = "dict" /\ DGt(mkt_cost, Zero) /\ DGt(saving, MARKETING_FLOOR)
        THEN [opps |-> <<Opp("CREDITO_MARKETING", month_data, src, saving, "HIGH")>>,
              add  |-> saving]
        ELSE Nothing

\* BeforeMarketing with a slip: the two revenue theses in the other order
BeforeMarketingSwapped(month_data, src, sim) ==
    <<RegimeMismatch(month_data, src, sim), CreditoInsumo(month_data, src, sim),
      Monofasico(month_data, src), ExclusaoIcms(month_data, src)>>

\* What one pass of the loop body does up to the marketing step, in the
\* order of the code
BeforeMarketing(month_data, src, sim) ==
    <<RegimeMismatch(month_data, src, sim), CreditoInsumo(month_data, src, sim),
      ExclusaoIcms(month_data, src), Monofasico(month_data, src)>>

RECURSIVE AllOpps(_)
AllOpps(steps) == IF steps = <<>> THEN <<>> ELSE Head(steps).opps \o AllOpps(Tail(steps))

RECURSIVE AllAdded(_)
AllAdded(steps) == IF steps = <<>> THEN Zero ELSE DAdd(Head(steps).add, AllAdded(Tail(steps)))

\* datetime.strptime(x, "%m/%Y"): a month written 1..9, 01..09 or 10..12, a
\* slash and a four-digit year from 0001; anything else raises ValueError
DigitVal(c) ==
    CASE c = "0" -> 0 [] c = "1" -> 1 [] c = "2" -> 2 [] c = "3" -> 3 [] c = "4" -> 4
      [] c = "5" -> 5 [] c = "6" -> 6 [] c = "7" -> 7 [] c = "8" -> 8 [] c = "9" -> 9
      [] OTHER -> -1

IsDigit(c) == DigitVal(c) >= 0

YearOf(x, at) ==
    1000 * DigitVal(x[at]) + 100 * DigitVal(x[at + 1]) + 10 * DigitVal(x[at + 2])
        + DigitVal(x[at + 3])

\* [ok, month, year]
strptime(x) ==
    LET bad == [ok |-> FALSE, month |-> 0, year |-> 0]
    IN  IF Len(x) = 7 /\ x[3] = "/" /\ \A j \in {1, 2, 4, 5, 6, 7} : IsDigit(x[j])
        THEN LET m == 10 * DigitVal(x[1]) + DigitVal(x[2])
                 y == YearOf(x, 4)
             IN  IF m \in 1..12 /\ y >= 1 THEN [ok |-> TRUE, month |-> m, year |-> y]
                 ELSE bad
        ELSE IF Len(x) = 6 /\ x[2] = "/" /\ \A j \in {1, 3, 4, 5, 6} : IsDigit(x[j])
        THEN LET m == DigitVal(x[1])
                 y == YearOf(x, 3)
             IN  IF m \in 1..9 /\ y >= 1 THEN [ok |-> TRUE, month |-> m, year |-> y]
                 ELSE bad
        ELSE bad

DateKey(x) == 12 * strptime(x).year + strptime(x).month

\* sorted(periods, key=...) is stable: its first element is the earliest label
\* that comes first in the input, its last the latest label that comes last
SortedFirst(ps) ==
    ps[CHOOSE j \in 1..Len(ps) :
          /\ \A k \in 1..Len(ps) : DateKey(ps[j]) <= DateKey(ps[k])
          /\ \A k \in 1..(j - 1) : DateKey(ps[k]) > DateKey(ps[j])]

\* SortedLast with a slip: the last label of the input, not of the sorted list
SortedLastUnsorted(ps) == ps[Len(ps)]

SortedLast(ps) ==
    ps[CHOOSE j \in 1..Len(ps) :
          /\ \A k \in 1..Len(ps) : DateKey(ps[k]) <= DateKey(ps[j])
          /\ \A k \in (j + 1)..Len(ps) : DateKey(ps[k]) < DateKey(ps[j])]

PERIOD_UNKNOWN == <<"Periodo Desconhecido">>

\* f"{first} a {last}"
Joined(first, last) == first \o <<" ", "a", " ">> \o last

\* HasPeriods with a slip: the range computed without the guard
HasPeriodsUnguarded(ps) == TRUE

\* "if periods and len(periods) > 0"
HasPeriods(ps) == Len(ps) > 0

\* sorted_p[0] of an empty list raises IndexError, and so does periods[0] in
\* the handler: only the guard keeps the empty history from it
period_range_raises(ps) == HasPeriods(ps) /\ ps = <<>>

PeriodRange(ps) ==
    IF HasPeriods(ps)
    THEN IF \A j \in 1..Len(ps) : strptime(ps[j]).ok
         THEN Joined(SortedFirst(ps), SortedLast(ps))
         ELSE Joined(ps[1], ps[Len(ps)])
    ELSE PERIOD_UNKNOWN

\* ------------------------------------------------------------------------
\* Inputs
\* ------------------------------------------------------------------------

MaxPeriods == 2

Breakdown(category, val) == CostDict([NoKeys EXCEPT ![category] = val])

Period(label, paid, regime, revenue, payroll, costs) ==
    [period |-> label, paid_amount |-> paid, paid_regime |-> regime,
     revenue |-> revenue, payroll |-> payroll, costs |-> costs]

Jan24 == <<"0", "1", "/", "2", "0", "2", "4">>
Dec23 == <<"1", "2", "/", "2", "0", "2", "3">>
Feb24 == <<"2", "/", "2", "0", "2", "4">>

NoCosts == Scalar(Num(Zero))

\* revenue 1000 with no costs: Simples Nacional (100.00) is recommended; the
\* amounts paid lie on both sides of the floor of 10 above it
ThresholdPeriods ==
    {Period(Jan24, paid, "LUCRO_PRESUMIDO", Num(Money(1000, 0)), Num(Zero), NoCosts) :
        paid \in {Num(Zero), Num(Money(110, 0)), Num(Money(110, 1)), BadStr, Absent}}

\* the regime used, as the callers write it, against both recommendations
\* (inputs worth 1000 make Lucro Real the cheapest: 50.00)
RegimePeriods ==
    {Period(Dec23, Num(Money(500, 0)), regime, Num(Money(1000, 0)), Num(Zero), costs) :
        regime \in {"Simples Nacional", "SIMPLES_NACIONAL", "LUCRO_REAL", "Lucro Real",
                    "MEI", NoRegime},
        costs \in {NoCosts, Breakdown("insumos_diretos", Num(Money(1000, 0)))}}

\* 'outros' on both sides of the floor of 100 after the rate
MarketingPeriods ==
    {Period(Feb24, Num(Zero), regime, Num(Money(500, 0)), Num(Money(100, 0)),
            Breakdown("outros", Num(outros))) :
        regime \in {"LUCRO_PRESUMIDO", "LUCRO_REAL"},
        outros \in {Money(1081, 8), Money(1081, 9), Money(3000, 0)}}

\* malformed and missing fields
MalformedPeriods ==
    {Period(NoLabel, Num(Money(500, 0)), "LUCRO_PRESUMIDO", revenue, Num(Zero), NoCosts) :
        revenue \in {BadStr, NoneVal, Absent}}
    \cup
    {Period(Jan24, Num(Money(500, 0)), "LUCRO_PRESUMIDO", Num(Money(1000, 0)), payroll, costs) :
        payroll \in {NoneVal},
        costs \in {Scalar(BadStr), Scalar(NoneVal), Scalar(Absent), CostDict(NoKeys),
                   Breakdown("outros", NoneVal), Breakdown("energia_eletrica", BadStr),
                   Breakdown("energia_eletrica", NoneVal)}}

\* credits under a Lucro Real recommendation (50.00) that was not overpaid
CreditPeriods ==
    {Period(Dec23, Num(Zero), "LUCRO_PRESUMIDO", Num(Money(1000, 0)), Num(Zero),
            Breakdown("insumos_diretos", Num(Money(1000, 0))))}

\* a payroll, all else as in the first of ThresholdPeriods
PayrollPeriods ==
    {Period(Jan24, Num(Zero), "LUCRO_PRESUMIDO", Num(Money(1000, 0)), Num(Money(100, 0)),
            NoCosts)}

\* a period that every detector answers
FullCosts ==
    CostDict([NoKeys EXCEPT !["insumos_diretos"] = Num(Money(1000, 0)),
                            !["outros"]          = Num(Money(3000, 0))])

FullPeriods ==
    {Period(Jan24, Num(Money(500, 0)), "LUCRO_REAL", Num(Money(1000, 0)), Num(Zero), FullCosts)}

Periods ==
    ThresholdPeriods \cup RegimePeriods \cup MarketingPeriods \cup MalformedPeriods
        \cup CreditPeriods \cup FullPeriods

RECURSIVE SeqsUpTo(_, _)
SeqsUpTo(S, n) ==
    IF n = 0 THEN {<<>>}
    ELSE LET shorter == SeqsUpTo(S, n - 1)
         IN  shorter \cup {Append(h, x) : h \in {g \in shorter : Len(g) = n - 1}, x \in S}

Histories == SeqsUpTo(Periods, MaxPeriods)

\* requests of the diagnostic entry point simulate_regimes
SimRevenues ==
    {Num(Zero), Num(Money(0, 1)), Num(Money(0, 5)), Num(Money(0, 25)), Num(Money(1000, 0)),
     Num(Money(100000, 0)), Num(Money(2000000, 0)), Num(Money(3600000, 0)),
     Num(Money(3600000, 1)), NoneVal, BadStr}

SimPayrolls == {Num(Zero), Num(Money(20000, 0)), Num(Money(400000, 0))}

ScenarioBCosts ==
    CostDict([NoKeys EXCEPT !["energia_eletrica"]    = Num(Money(150000, 0)),
                            !["insumos_diretos"]     = Num(Money(800000, 0)),
                            !["material_escritorio"] = Num(Money(5000, 0)),
                            !["aluguel_predios"]     = Num(Money(50000, 0))])

SimCosts ==
    {NoCosts, Scalar(Num(Money(40000, 0))), Scalar(NoneVal), CostDict(NoKeys), ScenarioBCosts,
     Breakdown("insumos_diretos", Num(Money(0, 25))),
     Breakdown("insumos_diretos", Num(Money(1000, 0))),
     Breakdown("material_escritorio", Num(Money(1000, 0))),
     Scalar(Num(Money(3600000, 1)))}

SimInputs ==
    {[revenue |-> r, payroll |-> p, costs |-> c] :
        r \in SimRevenues, p \in SimPayrolls, c \in SimCosts}

\* regime strings given to the calculators: the three identifiers they
\* compare with, a display name and a string that names no regime
EngineRegimes == {"SIMPLES_NACIONAL", "LUCRO_PRESUMIDO", "LUCRO_REAL", "Simples Nacional", "MEI"}

\* payrolls around half a cent of contribution (0.025 x 20% = 0.005)
InssPayrolls ==
    {Zero, Money(0, 2), Dec(0, 2500000), Money(0, 3), Dec(0, 7500000), Money(1000, 0),
     Money(20000, 0), Money(400000, 0)}

PisCofinsRevenues == {Zero, Money(0, 1), Money(1000, 0), Money(2000000, 0)}

\* breakdowns without credit, with credits below and with credits above the debits
PisCofinsCosts ==
    {NoKeys, ScenarioBCosts.d,
     [NoKeys EXCEPT !["insumos_diretos"] = Num(Money(500, 0))],
     [NoKeys EXCEPT !["insumos_diretos"] = Num(Money(2000, 0))],
     [NoKeys EXCEPT !["material_escritorio"] = Num(Money(2000, 0))],
     [NoKeys EXCEPT !["energia_eletrica"] = Num(Money(3000000, 0)),
                    !["aluguel_predios"]  = NoneVal]}

\* 62500 x 32% and 100000 - 80000 are the surtax threshold of 20000 itself
IrrfRevenues == {Zero, Money(1000, 0), Money(62500, 0), Money(62500, 1), Money(100000, 0)}

IrrfCosts == {Zero, Money(40000, 0), Money(79999, 99), Money(80000, 0), Money(200000, 0)}

\* revenues around half a cent of tax at the rates below
IssRevenues ==
    {Zero, Money(0, 1), Money(0, 10), Money(0, 30), Money(0, 50), Money(1, 10),
     Money(33, 33), Money(1000, 0), Money(12345, 67)}

\* city_rate: 5.0, 2.0, 3.75 and 0.05
CityRates == {CITY_RATE_DEFAULT, [k |-> 20, e |-> 1], [k |-> 375, e |-> 2], [k |-> 5, e |-> 2]}

\* invoice values around the CSRF floor: 214.94 x 4.65% rounds to 9.99,
\* 214.95 and 215.05 to 10.00, 215.17 to 10.01
RetentionValues ==
    {Zero, Money(100, 0), Money(214, 94), Money(214, 95), Money(215, 5), Money(215, 17),
     Money(1000, 0), Money(10000, 55)}

ProviderRegimes ==
    {<<"S", "i", "m", "p", "l", "e", "s", " ", "N", "a", "c", "i", "o", "n", "a", "l">>,
     <<"s", "i", "m", "p", "l", "e", "s", " ", "n", "a", "c", "i", "o", "n", "a", "l">>,
     <<"S", "I", "M", "P", "L", "E", "S", "_", "N", "A", "C", "I", "O", "N", "A", "L">>,
     <<"S", "i", "m", "p", "l", "e", "s", "_", "N", "a", "c", "i", "o", "n", "a", "l">>,
     <<"L", "U", "C", "R", "O", "_", "P", "R", "E", "S", "U", "M", "I", "D", "O">>,
     <<"L", "u", "c", "r", "o", " ", "R", "e", "a", "l">>,
     <<>>}

RetentionCityRates == {CITY_RATE_DEFAULT, [k |-> 20, e |-> 1]}

\* ------------------------------------------------------------------------
\* The calls
\* ------------------------------------------------------------------------

VARIABLES
    pc,             \* "idle", "loop", "done", "failed", "sim_done", "sim_failed",
                    \* "returned", "reported"
    history,        \* history_data of the analyze_credits call
    i,              \* position of the loop in history_data
    periods,        \* labels collected so far
    opportunities,
    total_savings,
    regime_totals,
    period_str,     \* period_range of the result
    sim_in,         \* annual_data of the simulate_regimes call
    sim_out,        \* its result
    call,           \* a calculator called on its own, with its arguments
    ret,            \* what it returned
    other,          \* the locals of a second analyze_credits call running beside the first
    memo,           \* a simulate_regimes request seen earlier, with its result
    sorted_opportunities,   \* the rows of the detail section of the report
    engine_dict,    \* the attributes of the TaxEngine, as <<name, value>> pairs
    agent_dict      \* the attributes of the CreditRecoveryAgent

vars == <<pc, history, i, periods, opportunities, total_savings, regime_totals,
          period_str, sim_in, sim_out, call, ret, other, memo, sorted_opportunities,
          context, engine_dict, agent_dict>>

\* what lives from one call to the next: the two objects and the context
object_vars == <<context, engine_dict, agent_dict>>

\* TaxEngine.__init__ sets no attribute
EngineAsConstructed == {}

\* CreditRecoveryAgent.__init__ sets tax_engine, a TaxEngine
AgentAsConstructed == {<<"tax_engine", "TaxEngine">>}

engine_vars == <<call, ret>>

session_vars == <<other, memo>>

NONE == "None"

\* period_range before the call has returned
NoRange == <<>>

ZeroTotals == [r \in RegimeNames |-> Zero]

\* before simulate_regimes is called there is no request and no result
NoRequest == [revenue |-> Absent, payroll |-> Absent, costs |-> Scalar(Absent)]

NoResult ==
    [inputs           |-> [revenue |-> Zero, payroll |-> Zero, total_costs |-> Zero],
     credits_found_lr |-> Zero,
     results          |-> ZeroTotals,
     recommendation   |-> NONE,
     savings          |-> Zero]

\* no calculator called yet
NoCall ==
    [fn |-> "none", amount |-> Zero, regime |-> "", costs |-> NoKeys, total_costs |-> Zero,
     is_service |-> TRUE, city_rate |-> CITY_RATE_DEFAULT, provider_regime |-> <<>>]

\* the values the calculators return, each in the fields of its own result
NoReturn ==
    [amount |-> Zero,
     pis |-> Zero, cofins |-> Zero, total_credits |-> Zero,
     irpj |-> Zero, csll |-> Zero,
     retentions |-> [CSRF |-> Zero, IRRF |-> Zero, INSS |-> Zero, ISS |-> Zero],
     total_liquid |-> Zero, warnings |-> <<>>]

\* the locals of one analyze_credits call
NoFrame ==
    [pc |-> "idle", history |-> <<>>, i |-> 1, periods |-> <<>>, opportunities |-> <<>>,
     total_savings |-> Zero, regime_totals |-> ZeroTotals, period_str |-> NoRange]

\* ended: the kinds of call that ended after the one remembered
NoMemo == [set |-> FALSE, request |-> NoRequest, result |-> NoResult, fresh |-> FALSE,
           ended |-> {}]

Init ==
    /\ pc = "idle"
    /\ history = <<>>
    /\ i = 1
    /\ periods = <<>>
    /\ opportunities = <<>>
    /\ total_savings = Zero
    /\ regime_totals = ZeroTotals
    /\ period_str = NoRange
    /\ sim_in = NoRequest
    /\ sim_out = NoResult
    /\ call = NoCall
    /\ ret = NoReturn
    /\ other = NoFrame
    /\ memo = NoMemo
    /\ sorted_opportunities = <<>>
    /\ context = DefaultContext
    /\ engine_dict = EngineAsConstructed
    /\ agent_dict = AgentAsConstructed

\* Accumulate with a slip: assigned, not added
AccumulateOverwriting(totals, results) == results

\* "for r, v in sim['results'].items(): regime_totals[r] += Decimal(v)"
Accumulate(totals, results) == [r \in RegimeNames |-> DAdd(totals[r], results[r])]

\* analyze_credits(history_data), history_data one of H: lines 370-374
AnalyzeFrom(H) ==
    /\ pc = "idle"
    /\ \E h \in H : history' = h
    /\ pc' = "loop"
    /\ i' = 1
    /\ periods' = <<>>
    /\ opportunities' = <<>>
    /\ total_savings' = Zero
    /\ regime_totals' = ZeroTotals
    /\ UNCHANGED <<object_vars, sorted_opportunities, period_str, sim_in, sim_out, engine_vars, session_vars>>

CallAnalyze == AnalyzeFrom(Histories)

\* one pass of "for month_data in history_data": lines 376-491. An
\* exception leaves the call with what was accumulated and no result.
LoopBody ==
    /\ pc = "loop"
    /\ i <= Len(history)
    /\ LET month_data == history[i]
           sim        == simulate_regimes(SimInput(month_data))
           steps      == BeforeMarketing(month_data, i, sim)
           mkt        == CreditoMarketing(month_data, i)
       IN  /\ periods' = Append(periods, PeriodLabel(month_data))
           /\ IF simulate_raises(SimInput(month_data))
              THEN /\ pc' = "failed"
                   /\ UNCHANGED <<i, opportunities, total_savings, regime_totals>>
              ELSE /\ regime_totals' = Accumulate(regime_totals, sim.results)
                   /\ IF marketing_raises(month_data)
                      THEN /\ pc' = "failed"
                           /\ opportunities' = opportunities \o AllOpps(steps)
                           /\ total_savings' = DAdd(total_savings, AllAdded(steps))
                           /\ i' = i
                      ELSE /\ pc' = "loop"
                           /\ opportunities' = opportunities \o AllOpps(steps) \o mkt.opps
                           /\ total_savings' =
                                  DAdd(DAdd(total_savings, AllAdded(steps)), mkt.add)
                           /\ i' = i + 1
    /\ UNCHANGED <<object_vars, sorted_opportunities, history, period_str, sim_in, sim_out, engine_vars, session_vars>>

\* after the loop: lines 493-508
Return ==
    /\ pc = "loop"
    /\ i > Len(history)
    /\ IF period_range_raises(periods)
       THEN pc' = "failed" /\ period_str' = period_str
       ELSE pc' = "done" /\ period_str' = PeriodRange(periods)
    /\ UNCHANGED <<object_vars, sorted_opportunities, history, i, periods, opportunities, total_savings, regime_totals,
                   sim_in, sim_out, engine_vars, session_vars>>

\* SimulateFrom with a slip: the regimes dict kept on the engine as
\* self.regimes, each call adding its totals to those of the call before
SimulateFromAccumulating(S) ==
    /\ pc = "idle"
    /\ \E annual_data \in S :
          /\ sim_in' = annual_data
          /\ IF simulate_raises(annual_data)
             THEN pc' = "sim_failed" /\ sim_out' = NoResult /\ engine_dict' = engine_dict
             ELSE LET kept == IF engine_dict = {} THEN ZeroTotals
                              ELSE (CHOOSE a \in engine_dict : a[1] = "regimes")[2]
                      sum  == [r \in RegimeNames |->
                                  DAdd(kept[r], simulate_regimes(annual_data).results[r])]
                  IN  /\ pc' = "sim_done"
                      /\ sim_out' = [simulate_regimes(annual_data) EXCEPT !.results = sum]
                      /\ engine_dict' = {<<"regimes", sum>>}
    /\ UNCHANGED <<context, agent_dict, sorted_opportunities, history, i, periods,
                   opportunities, total_savings, regime_totals,
                   period_str, engine_vars, session_vars>>

\* simulate_regimes(annual_data) called on its own, annual_data one of S
SimulateFrom(S) ==
    /\ pc = "idle"
    /\ \E annual_data \in S :
          /\ sim_in' = annual_data
          /\ IF simulate_raises(annual_data)
             THEN pc' = "sim_failed" /\ sim_out' = NoResult
             ELSE pc' = "sim_done" /\ sim_out' = simulate_regimes(annual_data)
    /\ UNCHANGED <<object_vars, sorted_opportunities, history, i, periods, opportunities, total_savings, regime_totals,
                   period_str, engine_vars, session_vars>>

CallSimulate == SimulateFrom(SimInputs)

\* The keys of the sort are strings, compared as Python compares str: by
\* code point, so 'HIGH' < 'LOW' < 'MEDIUM' and, among the types,
\* 'CREDITO_INSUMO' < 'CREDITO_MARKETING' < 'EXCLUSAO_ICMS' < 'MONOFASICO'
\* < 'REGIME_MISMATCH'. RiskKey and TypeKey give the place of a string in
\* that order.
RiskKey(risk) ==
    CASE risk = "HIGH" -> 1 [] risk = "LOW" -> 2 [] risk = "MEDIUM" -> 3

TypeKey(type) ==
    CASE type = "CREDITO_INSUMO" -> 1 [] type = "CREDITO_MARKETING" -> 2
      [] type = "EXCLUSAO_ICMS" -> 3 [] type = "MONOFASICO" -> 4
      [] type = "REGIME_MISMATCH" -> 5

\* (x['risk'], x['type']) < (y['risk'], y['type'])
SortKeyLess(x, y) ==
    \/ RiskKey(x.risk) < RiskKey(y.risk)
    \/ RiskKey(x.risk) = RiskKey(y.risk) /\ TypeKey(x.type) < TypeKey(y.type)

\* sorted() is stable: an element goes behind those of equal key that came
\* before it
RECURSIVE InsertSorted(_, _)
InsertSorted(x, s) ==
    IF s = <<>> THEN <<x>>
    ELSE IF SortKeyLess(x, Head(s)) THEN <<x>> \o s
    ELSE <<Head(s)>> \o InsertSorted(x, Tail(s))

RECURSIVE SortedByRiskAndType(_)
SortedByRiskAndType(opps) ==
    IF opps = <<>> THEN <<>>
    ELSE InsertSorted(opps[Len(opps)], SortedByRiskAndType(SubSeq(opps, 1, Len(opps) - 1)))

\* generate_report(analysis_result) on the result of a finished call: the
\* detail section lists sorted_opportunities, a new list (line 548)
GenerateReport ==
    /\ pc = "done"
    /\ pc' = "reported"
    /\ sorted_opportunities' = SortedByRiskAndType(opportunities)
    /\ UNCHANGED <<object_vars, history, i, periods, opportunities, total_savings,
                   regime_totals, period_str, sim_in, sim_out, engine_vars, session_vars>>

analyze_vars ==
    <<history, i, periods, opportunities, total_savings, regime_totals, period_str,
      sim_in, sim_out>>

\* calculate_inss_patronal(payroll_amount, regime) called on its own
CallInss ==
    /\ pc = "idle"
    /\ \E payroll \in InssPayrolls, regime \in EngineRegimes :
          /\ call' = [NoCall EXCEPT !.fn = "calculate_inss_patronal",
                                    !.amount = payroll, !.regime = regime]
          /\ ret' = [NoReturn EXCEPT !.amount = calculate_inss_patronal(payroll, regime)]
    /\ pc' = "returned"
    /\ UNCHANGED <<object_vars, sorted_opportunities, analyze_vars, session_vars>>

\* calculate_pis_cofins(revenue_amount, regime, detailed_costs) called on its own
CallPisCofins ==
    /\ pc = "idle"
    /\ \E revenue \in PisCofinsRevenues, regime \in EngineRegimes,
          detailed_costs \in PisCofinsCosts :
          /\ call' = [NoCall EXCEPT !.fn = "calculate_pis_cofins", !.amount = revenue,
                                    !.regime = regime, !.costs = detailed_costs]
          /\ LET r == calculate_pis_cofins(revenue, regime, detailed_costs)
             IN  ret' = [NoReturn EXCEPT !.pis = r.pis, !.cofins = r.cofins,
                                         !.total_credits = r.total_credits]
    /\ pc' = "returned"
    /\ UNCHANGED <<object_vars, sorted_opportunities, analyze_vars, session_vars>>

\* calculate_irrf_csll(revenue_amount, total_costs, regime, is_service) called
\* on its own
CallIrrfCsll ==
    /\ pc = "idle"
    /\ \E revenue \in IrrfRevenues, total_costs \in IrrfCosts, regime \in EngineRegimes,
          is_service \in BOOLEAN :
          /\ call' = [NoCall EXCEPT !.fn = "calculate_irrf_csll", !.amount = revenue,
                                    !.total_costs = total_costs, !.regime = regime,
                                    !.is_service = is_service]
          /\ LET r == calculate_irrf_csll(revenue, total_costs, regime, is_service)
             IN  ret' = [NoReturn EXCEPT !.irpj = r.irpj, !.csll = r.csll]
    /\ pc' = "returned"
    /\ UNCHANGED <<object_vars, sorted_opportunities, analyze_vars, session_vars>>

\* calculate_iss(revenue_amount, city_rate) called on its own
CallIss ==
    /\ pc = "idle"
    /\ \E revenue \in IssRevenues, city_rate \in CityRates :
          /\ call' = [NoCall EXCEPT !.fn = "calculate_iss", !.amount = revenue,
                                    !.city_rate = city_rate]
          /\ ret' = [NoReturn EXCEPT !.amount = calculate_iss(revenue, IssRate(city_rate))]
    /\ pc' = "returned"
    /\ UNCHANGED <<object_vars, sorted_opportunities, analyze_vars, session_vars>>

\* calculate_retentions_on_invoice(service_value, provider_regime,
\* city_iss_rate=...) called on its own
CallRetentions ==
    /\ pc = "idle"
    /\ \E val \in RetentionValues, provider_regime \in ProviderRegimes,
          city_iss_rate \in RetentionCityRates :
          /\ call' = [NoCall EXCEPT !.fn = "calculate_retentions_on_invoice",
                                    !.amount = val, !.provider_regime = provider_regime,
                                    !.city_rate = city_iss_rate]
          /\ LET r == calculate_retentions_on_invoice(val, provider_regime, city_iss_rate)
             IN  ret' = [NoReturn EXCEPT !.retentions = r.retentions,
                                         !.total_liquid = r.total_liquid,
                                         !.warnings = r.warnings]
    /\ pc' = "returned"
    /\ UNCHANGED <<object_vars, sorted_opportunities, analyze_vars, session_vars>>

Next ==
    \/ CallAnalyze \/ LoopBody \/ Return \/ CallSimulate
    \/ CallInss \/ CallPisCofins \/ CallIrrfCsll \/ CallIss \/ CallRetentions

Spec == Init /\ [][Next]_vars

\* ------------------------------------------------------------------------
\* A session: the caller makes one call after another on the same agent and
\* engine, while a second analyze_credits call runs beside them, its passes
\* interleaved with theirs at any point
\* ------------------------------------------------------------------------

\* the periods of the caller's histories: all five opportunities, and one
MarketingOnly ==
    Period(Feb24, Num(Zero), "LUCRO_PRESUMIDO", Num(Money(500, 0)), Num(Money(100, 0)),
           Breakdown("outros", Num(Money(3000, 0))))

SessionPeriods == FullPeriods \cup {MarketingOnly}

SessionHistories == SeqsUpTo(SessionPeriods, MaxPeriods)

\* the periods of the second call's histories, one of them malformed
OtherPeriods ==
    {MarketingOnly,
     Period(NoLabel, Num(Money(500, 0)), "LUCRO_PRESUMIDO", BadStr, Num(Zero), NoCosts)}

OtherHistories == SeqsUpTo(OtherPeriods, MaxPeriods)

SessionSimInputs ==
    {[revenue |-> Num(Money(100000, 0)), payroll |-> Num(Money(20000, 0)),
      costs |-> Scalar(Num(Money(40000, 0)))],
     [revenue |-> Num(Money(2000000, 0)), payroll |-> Num(Money(400000, 0)),
      costs |-> ScenarioBCosts],
     [revenue |-> Num(Money(0, 5)), payroll |-> Num(Zero), costs |-> NoCosts]}

\* OwnTotal with a slip: the running total kept in one place for every call
SharedTotal(fr) == total_savings

\* total_savings is a local of the call (line 371)
OwnTotal(fr) == fr.total_savings

\* the locals at the start of analyze_credits(h): lines 370-374
FrameStart(h) == [NoFrame EXCEPT !.pc = "loop", !.history = h]

\* the locals after one more pass of the loop: lines 376-491
FramePass(fr) ==
    LET month_data == fr.history[fr.i]
        sim        == simulate_regimes(SimInput(month_data))
        steps      == BeforeMarketing(month_data, fr.i, sim)
        mkt        == CreditoMarketing(month_data, fr.i)
        labelled   == [fr EXCEPT !.periods = Append(@, PeriodLabel(month_data))]
        simulated  == [labelled EXCEPT
                          !.regime_totals = Accumulate(@, sim.results)]
    IN  IF simulate_raises(SimInput(month_data))
        THEN [labelled EXCEPT !.pc = "failed"]
        ELSE IF marketing_raises(month_data)
        THEN [simulated EXCEPT !.pc = "failed",
                               !.opportunities = @ \o AllOpps(steps),
                               !.total_savings = DAdd(OwnTotal(fr), AllAdded(steps))]
        ELSE [simulated EXCEPT !.opportunities = @ \o AllOpps(steps) \o mkt.opps,
                               !.total_savings =
                                   DAdd(DAdd(OwnTotal(fr), AllAdded(steps)), mkt.add),
                               !.i = @ + 1]

\* the locals when the call returns: lines 493-508
FrameReturn(fr) ==
    IF period_range_raises(fr.periods) THEN [fr EXCEPT !.pc = "failed"]
    ELSE [fr EXCEPT !.pc = "done", !.period_str = PeriodRange(fr.periods)]

SessionAnalyze == AnalyzeFrom(SessionHistories)

SessionSimulate == SimulateFrom(SessionSimInputs)

\* the caller has its result, or its exception, and goes on to its next
\* call: the locals of the call that ended are gone
NextCall ==
    /\ pc \in {"done", "failed", "sim_done", "sim_failed"}
    /\ pc' = "idle"
    /\ history' = <<>>
    /\ i' = 1
    /\ periods' = <<>>
    /\ opportunities' = <<>>
    /\ total_savings' = Zero
    /\ regime_totals' = ZeroTotals
    /\ period_str' = NoRange
    /\ memo' = IF ~memo.set THEN memo
               ELSE IF memo.fresh THEN [memo EXCEPT !.fresh = FALSE]
               ELSE [memo EXCEPT !.ended = @ \cup {IF pc \in {"done", "failed"}
                                                   THEN "analyze_credits"
                                                   ELSE "simulate_regimes"}]
    /\ UNCHANGED <<object_vars, sorted_opportunities, sim_in, sim_out, engine_vars, other>>

\* the caller keeps a request and the result simulate_regimes gave for it
Remember ==
    /\ pc = "sim_done"
    /\ ~memo.set
    /\ memo' = [set |-> TRUE, request |-> sim_in, result |-> sim_out, fresh |-> TRUE,
                ended |-> {}]
    /\ UNCHANGED <<object_vars, sorted_opportunities, pc, analyze_vars, engine_vars, other>>

OtherAnalyze ==
    /\ other.pc \in {"idle", "done", "failed"}
    /\ \E h \in OtherHistories : other' = FrameStart(h)
    /\ UNCHANGED <<object_vars, sorted_opportunities, pc, analyze_vars, engine_vars, memo>>

OtherLoopBody ==
    /\ other.pc = "loop"
    /\ other.i <= Len(other.history)
    /\ other' = FramePass(other)
    /\ UNCHANGED <<object_vars, sorted_opportunities, pc, analyze_vars, engine_vars, memo>>

OtherReturn ==
    /\ other.pc = "loop"
    /\ other.i > Len(other.history)
    /\ other' = FrameReturn(other)
    /\ UNCHANGED <<object_vars, sorted_opportunities, pc, analyze_vars, engine_vars, memo>>

SessionNext ==
    \/ SessionAnalyze \/ LoopBody \/ Return \/ SessionSimulate \/ NextCall \/ Remember
    \/ OtherAnalyze \/ OtherLoopBody \/ OtherReturn

SessionSpec == Init /\ [][SessionNext]_vars

\* ------------------------------------------------------------------------
\* analyze_credits on its own, also on periods with a payroll
\* ------------------------------------------------------------------------

AnalysisHistories == SeqsUpTo(Periods \cup PayrollPeriods, MaxPeriods)

AnalysisAnalyze == AnalyzeFrom(AnalysisHistories)

AnalysisNext ==
    \/ AnalysisAnalyze \/ LoopBody \/ Return

AnalysisSpec == Init /\ [][AnalysisNext]_vars

\* ------------------------------------------------------------------------
\* An analysis followed by its report, as the module does when it is run as
\* a script (credit_recovery.py, __main__) and as debug_run.py does:
\* analyze_credits, then generate_report on its result
\* ------------------------------------------------------------------------

Mar24 == <<"0", "3", "/", "2", "0", "2", "4">>

\* mock_history of the module's own entry point
MockPeriods ==
    {Period(Jan24, Num(Money(50000, 0)), "LUCRO_PRESUMIDO", Num(Money(250000, 0)),
            Num(Money(60000, 0)),
            CostDict([NoKeys EXCEPT !["energia_eletrica"] = Num(Money(8000, 0)),
                                    !["insumos_diretos"]  = Num(Money(100000, 0))]))}

\* history_data of debug_run.py
DebugPeriods ==
    {Period(Mar24, Num(Money(40000, 0)), "LUCRO_PRESUMIDO", Num(Money(500000, 0)),
            Num(Money(100000, 0)),
            CostDict([NoKeys EXCEPT !["energia_eletrica"] = Num(Money(12000, 0)),
                                    !["insumos_diretos"]  = Num(Money(150000, 0)),
                                    !["aluguel_predios"]  = Num(Money(10000, 0))]))}

ReportPeriods ==
    ThresholdPeriods \cup MarketingPeriods \cup CreditPeriods \cup FullPeriods
        \cup PayrollPeriods \cup MockPeriods \cup DebugPeriods

ReportHistories == SeqsUpTo(ReportPeriods, MaxPeriods)

ReportAnalyze == AnalyzeFrom(ReportHistories)

ReportNext ==
    \/ ReportAnalyze \/ LoopBody \/ Return \/ GenerateReport

ReportSpec == Init /\ [][ReportNext]_vars

\* ------------------------------------------------------------------------
\* Properties
\* ------------------------------------------------------------------------

\* periods the loop has gone through completely
Processed == i - 1

SimOf(k) == simulate_regimes(SimInput(history[k]))

OppsAt(k, type) ==
    {j \in 1..Len(opportunities) :
        opportunities[j].src = k /\ opportunities[j].type = type}

TypesAt(k) ==
    {opportunities[j].type : j \in {n \in 1..Len(opportunities) : opportunities[n].src = k}}

RECURSIVE SumOfValues(_)
SumOfValues(opps) ==
    IF opps = <<>> THEN Zero ELSE DAdd(Head(opps).value, SumOfValues(Tail(opps)))

\* C1: the total_savings that analyze_credits returns is the sum of the
\* values of all the opportunities it returns, whatever their types.
C1_TotalSavingsIsSumOfValues ==
    pc = "done" => total_savings = SumOfValues(opportunities)

\* C2: a REGIME_MISMATCH opportunity is emitted for a period only if the
\* regime the company used differs from the regime simulate_regimes
\* recommends for it.
C2_MismatchOnlyIfRegimeDiffers ==
    \A j \in 1..Len(opportunities) :
        opportunities[j].type = "REGIME_MISMATCH" =>
            UsedRegime(history[opportunities[j].src])
                # SimOf(opportunities[j].src).recommendation

OptimalOf(k) == LET sim == SimOf(k) IN sim.results[sim.recommendation]

OverpaidBy(k) == DSub(PaidAmount(history[k]), OptimalOf(k))

\* C3: for every period, with optimal the recommended regime's reported
\* total: when paid_amount - optimal > 10 exactly one REGIME_MISMATCH is
\* emitted for it, of value paid_amount - optimal and risk LOW; when
\* paid_amount - optimal <= 10 (10 included) none is.
C3_MismatchAboveFloor ==
    \A k \in 1..Processed :
        LET overpaid == OverpaidBy(k)
        IN  IF DGt(overpaid, Money(10, 0))
            THEN /\ Cardinality(OppsAt(k, "REGIME_MISMATCH")) = 1
                 /\ \A j \in OppsAt(k, "REGIME_MISMATCH") :
                       /\ opportunities[j].value = overpaid
                       /\ opportunities[j].risk = "LOW"
            ELSE OppsAt(k, "REGIME_MISMATCH") = {}

\* a finished call with a period paid exactly 10 above the optimum and a
\* period that gave a REGIME_MISMATCH
C3_Witness ==
    /\ pc = "done"
    /\ \E k \in 1..Len(history) : OverpaidBy(k) = Money(10, 0)
    /\ \E k \in 1..Len(history) : OppsAt(k, "REGIME_MISMATCH") # {}

IsNumber(val) == val.t = "num"

ZeroIfMalformed(val) == IF IsNumber(val) THEN val ELSE Num(Zero)

ZeroCostsIfMalformed(costs) ==
    IF costs.t = "dict"
    THEN CostDict([c \in Categories |->
                      IF costs.d[c].t = "absent" THEN Absent ELSE ZeroIfMalformed(costs.d[c])])
    ELSE Scalar(ZeroIfMalformed(costs))

\* the period with 0 in the place of every malformed or missing numeric field
Sanitized(month_data) ==
    [month_data EXCEPT !.paid_amount = ZeroIfMalformed(@),
                       !.revenue     = ZeroIfMalformed(@),
                       !.payroll     = ZeroIfMalformed(@),
                       !.costs       = ZeroCostsIfMalformed(@)]

ContributionOf(month_data, src) ==
    LET steps == BeforeMarketing(month_data, src, simulate_regimes(SimInput(month_data)))
        mkt   == CreditoMarketing(month_data, src)
    IN  [opps |-> AllOpps(steps) \o mkt.opps, add |-> DAdd(AllAdded(steps), mkt.add)]

RECURSIVE SanitizedOpps(_, _)
SanitizedOpps(h, k) ==
    IF k = 0 THEN <<>>
    ELSE SanitizedOpps(h, k - 1) \o ContributionOf(Sanitized(h[k]), k).opps

RECURSIVE SanitizedSavings(_, _)
SanitizedSavings(h, k) ==
    IF k = 0 THEN Zero
    ELSE DAdd(SanitizedSavings(h, k - 1), ContributionOf(Sanitized(h[k]), k).add)

\* C4: analyze_credits never aborts because a numeric field of one period
\* is malformed or missing (absent, None, a non-numeric string): the field
\* counts as zero, every period is processed, and the opportunities and the
\* total are those of the history with 0 in the place of the bad field.
C4_MalformedFieldCountsAsZero ==
    /\ pc # "failed"
    /\ pc = "done" =>
          /\ opportunities = SanitizedOpps(history, Len(history))
          /\ total_savings = SanitizedSavings(history, Len(history))

\* C5: analyze_credits on an empty list of periods does not fail and
\* returns total_savings 0, no opportunity, and 0 for each of the three
\* regimes of regime_comparison.
C5_EmptyHistoryResult ==
    (history = <<>> /\ pc \in {"loop", "done", "failed"}) =>
        /\ pc # "failed"
        /\ pc = "done" =>
              /\ total_savings = Zero
              /\ opportunities = <<>>
              /\ DOMAIN regime_totals = {SN, LP, LR}
              /\ \A r \in {SN, LP, LR} : regime_totals[r] = Zero

\* the call on the empty list has returned
C5_Witness == pc = "done" /\ history = <<>>

DetectorRank(type) ==
    CASE type = "REGIME_MISMATCH"   -> 1
      [] type = "CREDITO_INSUMO"    -> 2
      [] type = "EXCLUSAO_ICMS"     -> 3
      [] type = "MONOFASICO"        -> 4
      [] type = "CREDITO_MARKETING" -> 5

\* C6: the opportunities of one call stand in the order of the input
\* periods, and within one period in the order REGIME_MISMATCH,
\* CREDITO_INSUMO, EXCLUSAO_ICMS, MONOFASICO, CREDITO_MARKETING.
C6_OpportunityOrder ==
    \A a, b \in 1..Len(opportunities) :
        a < b =>
            \/ opportunities[a].src < opportunities[b].src
            \/ /\ opportunities[a].src = opportunities[b].src
               /\ DetectorRank(opportunities[a].type) < DetectorRank(opportunities[b].type)

\* a finished call of two periods, the first answered by all five
\* detectors, the second by at least two
C6_Witness ==
    /\ pc = "done"
    /\ Len(history) = 2
    /\ Cardinality(TypesAt(1)) = 5
    /\ Cardinality(TypesAt(2)) >= 2

\* the first regime, in the order Simples Nacional, Lucro Presumido, Lucro
\* Real, whose reported total is the least
FirstMinimum(results) ==
    IF ~DLt(results[LP], results[SN]) /\ ~DLt(results[LR], results[SN]) THEN SN
    ELSE IF ~DLt(results[LR], results[LP]) THEN LP
    ELSE LR

\* C7: the recommendation of simulate_regimes is a regime whose reported
\* total is the least of the three reported totals, the first of them in
\* the order Simples Nacional, Lucro Presumido, Lucro Real when several tie.
C7_RecommendationIsFirstMinimum ==
    pc = "sim_done" => sim_out.recommendation = FirstMinimum(sim_out.results)

\* the three totals before they are reported: the Simples Nacional product
\* as it is, the other two already sums of amounts rounded half-up
ExactTotals(annual_data) ==
    LET revenue == to_decimal(annual_data.revenue)
        sim     == simulate_regimes(annual_data)
    IN  [r \in RegimeNames |->
            IF r = SN THEN Mul(revenue, SimplesRate(revenue)) ELSE sim.results[r]]

\* C8: every amount simulate_regimes reports is rounded half-up at 2
\* decimals: the Simples Nacional total is revenue x flat rate rounded
\* half-up (half a cent goes up), and savings is rounded half-up.
C8_ReportedAmountsRoundHalfUp ==
    pc = "sim_done" =>
        LET exact == ExactTotals(sim_in)
        IN  /\ sim_out.results[SN] = QuantizeHalfUp(exact[SN])
            /\ sim_out.savings =
                   QuantizeHalfUp(DSub(MaxTotal(exact), MinTotal(exact)))

ScenarioA ==
    [revenue |-> Num(Money(100000, 0)), payroll |-> Num(Money(20000, 0)),
     costs |-> Scalar(Num(Money(40000, 0)))]

\* C9 as stated: revenue 100000, payroll 20000 and costs 40000 as one
\* amount give Lucro Presumido 21530.00, Lucro Real 33875.00, Simples
\* Nacional 10000.00, the recommendation Simples Nacional and savings
\* 23875.00.
C9_ScenarioA_AsStated ==
    (pc = "sim_done" /\ sim_in = ScenarioA) =>
        /\ sim_out.results[LP] = Money(21530, 0)
        /\ sim_out.results[LR] = Money(33875, 0)
        /\ sim_out.results[SN] = Money(10000, 0)
        /\ sim_out.recommendation = SN
        /\ sim_out.savings = Money(23875, 0)

\* C9 amended: revenue 100000, payroll 20000 and costs 40000 as one amount
\* give Lucro Presumido 21530.00, Lucro Real 36650.00 (an amount without a
\* breakdown earns no credit), Simples Nacional 10000.00, the
\* recommendation Simples Nacional and savings 26650.00.
C9_ScenarioA_Amended ==
    (pc = "sim_done" /\ sim_in = ScenarioA) =>
        /\ sim_out.results[LP] = Money(21530, 0)
        /\ sim_out.results[LR] = Money(36650, 0)
        /\ sim_out.results[SN] = Money(10000, 0)
        /\ sim_out.recommendation = SN
        /\ sim_out.savings = Money(26650, 0)

\* simulate_regimes has answered scenario A
C9_Witness == pc = "sim_done" /\ sim_in = ScenarioA /\ sim_out.credits_found_lr = Zero

ScenarioB ==
    [revenue |-> Num(Money(2000000, 0)), payroll |-> Num(Money(400000, 0)),
     costs |-> ScenarioBCosts]

\* C10: revenue 2000000, payroll 400000 and the breakdown energia_eletrica
\* 150000, insumos_diretos 800000, material_escritorio 5000, aluguel_predios
\* 50000 has the credit base 1000000 (office supplies left out) and gives
\* credits_found_lr 92500.00, Lucro Presumido 468600.00, Lucro Real
\* 608800.00, Simples Nacional 200000.00 and the recommendation Simples
\* Nacional.
C10_ScenarioB ==
    (pc = "sim_done" /\ sim_in = ScenarioB) =>
        /\ CreditBase(sim_in.costs.d) = Money(1000000, 0)
        /\ sim_out.credits_found_lr = Money(92500, 0)
        /\ sim_out.results[LP] = Money(468600, 0)
        /\ sim_out.results[LR] = Money(608800, 0)
        /\ sim_out.results[SN] = Money(200000, 0)
        /\ sim_out.recommendation = SN

\* simulate_regimes has answered scenario B, whose breakdown holds a
\* category that gives no credit
C10_Witness ==
    /\ pc = "sim_done"
    /\ sim_in = ScenarioB
    /\ "material_escritorio" \in Keys(sim_in.costs.d) \ credit_categories

\* ------------------------------------------------------------------------
\* Properties of the calculators and of a session
\* ------------------------------------------------------------------------

NonNegative(a) == ~DLt(a, Zero)

\* an amount of whole cents, in cents; an amount of whole thousandths, in
\* thousandths
Cents(a) == a.w * 100 + (a.f \div CentUnit)

Mills(a) == a.w * 1000 + (a.f \div 10^5)

WholeCents(a) == a.f % CentUnit = 0

\* num / den rounded half-up to an integer, for num >= 0
HalfUpDiv(num, den) == (2 * num + den) \div (2 * den)

\* n / 10^8 as an amount
Exact8(n) == [w |-> n \div FracUnit, f |-> n % FracUnit]

Returned(fn) == pc = "returned" /\ call.fn = fn

\* C11: for every regime string, every non-negative revenue and every cost
\* breakdown, also one whose eligible credits exceed the debits,
\* calculate_pis_cofins returns pis >= 0 and cofins >= 0.
C11_PisCofinsNeverNegative ==
    (Returned("calculate_pis_cofins") /\ NonNegative(call.amount)) =>
        NonNegative(ret.pis) /\ NonNegative(ret.cofins)

\* calculate_pis_cofins has answered a Lucro Real request whose credit base
\* exceeds the revenue
C11_Witness ==
    /\ Returned("calculate_pis_cofins")
    /\ call.regime = "LUCRO_REAL"
    /\ DGt(call.amount, Zero)
    /\ DGt(CreditBase(call.costs), call.amount)
    /\ DGt(ret.total_credits, Zero)

NonNegativeRequest(annual_data) ==
    /\ NonNegative(to_decimal(annual_data.revenue))
    /\ NonNegative(to_decimal(annual_data.payroll))
    /\ IF annual_data.costs.t = "dict"
       THEN \A c \in Keys(annual_data.costs.d) : NonNegative(to_decimal(annual_data.costs.d[c]))
       ELSE NonNegative(to_decimal(annual_data.costs))

\* C12: for non-negative revenue, payroll and costs (one amount or a
\* breakdown) the result of simulate_regimes has its three totals >= 0,
\* savings >= 0 and a recommendation that is one of 'Simples Nacional',
\* 'Lucro Presumido', 'Lucro Real'.
C12_SimulationNonNegative ==
    (pc = "sim_done" /\ NonNegativeRequest(sim_in)) =>
        /\ DOMAIN sim_out.results = {"Simples Nacional", "Lucro Presumido", "Lucro Real"}
        /\ \A r \in DOMAIN sim_out.results : NonNegative(sim_out.results[r])
        /\ NonNegative(sim_out.savings)
        /\ sim_out.recommendation \in {"Simples Nacional", "Lucro Presumido", "Lucro Real"}

\* simulate_regimes has answered a request whose costs exceed its revenue
C12_Witness ==
    /\ pc = "sim_done"
    /\ DGt(sim_out.inputs.revenue, Zero)
    /\ DGt(sim_out.inputs.total_costs, sim_out.inputs.revenue)

\* C13: a simulate_regimes call with the inputs of an earlier call on the
\* same engine returns the result of the earlier call, whatever
\* simulate_regimes and analyze_credits calls were made in between; and at
\* every point of the session the engine and the agent have the attributes
\* their constructors gave them, and the precision and rounding of the
\* decimal context, which the results are rounded by, are those the session
\* began with.
C13_SimulateIdempotent ==
    /\ (pc = "sim_done" /\ memo.set /\ sim_in = memo.request) => sim_out = memo.result
    /\ engine_dict = EngineAsConstructed
    /\ agent_dict = AgentAsConstructed
    /\ context = DefaultContext

\* simulate_regimes has answered the remembered request again, after calls of
\* both kinds had ended in between and with a second analysis under way; the
\* request is one whose Simples Nacional total, 0.005, is a tie that the
\* context's rounding decides
C13_Witness ==
    /\ pc = "sim_done"
    /\ memo.set /\ ~memo.fresh
    /\ sim_in = memo.request
    /\ sim_in.revenue = Num(Money(0, 5))
    /\ sim_out.results[SN] = Zero
    /\ memo.ended = {"analyze_credits", "simulate_regimes"}
    /\ other.pc = "loop" /\ other.i > 1

\* what analyze_credits(h) has in its locals after k passes when it runs
\* alone
RECURSIVE AloneOpps(_, _)
AloneOpps(h, k) ==
    IF k = 0 THEN <<>> ELSE AloneOpps(h, k - 1) \o ContributionOf(h[k], k).opps

RECURSIVE AloneSavings(_, _)
AloneSavings(h, k) ==
    IF k = 0 THEN Zero ELSE DAdd(AloneSavings(h, k - 1), ContributionOf(h[k], k).add)

RECURSIVE AloneTotals(_, _)
AloneTotals(h, k) ==
    IF k = 0 THEN ZeroTotals
    ELSE [r \in RegimeNames |->
             DAdd(AloneTotals(h, k - 1)[r], simulate_regimes(SimInput(h[k])).results[r])]

AloneLabels(h, k) == [j \in 1..k |-> PeriodLabel(h[j])]

PassRaises(month_data) ==
    simulate_raises(SimInput(month_data)) \/ marketing_raises(month_data)

AloneFails(h) == \E k \in 1..Len(h) : PassRaises(h[k])

\* the locals fr of a call are those of the same call run alone
AsAlone(fr) ==
    /\ fr.pc \in {"loop", "done"} =>
          /\ \A k \in 1..(fr.i - 1) : ~PassRaises(fr.history[k])
          /\ fr.opportunities = AloneOpps(fr.history, fr.i - 1)
          /\ fr.total_savings = AloneSavings(fr.history, fr.i - 1)
          /\ fr.regime_totals = AloneTotals(fr.history, fr.i - 1)
          /\ fr.periods = AloneLabels(fr.history, fr.i - 1)
    /\ fr.pc = "done" =>
          /\ fr.i = Len(fr.history) + 1
          /\ fr.period_str = PeriodRange(AloneLabels(fr.history, Len(fr.history)))
    /\ fr.pc = "failed" => AloneFails(fr.history)

\* the locals of the caller's call
Frame ==
    [pc |-> pc, history |-> history, i |-> i, periods |-> periods,
     opportunities |-> opportunities, total_savings |-> total_savings,
     regime_totals |-> regime_totals, period_str |-> period_str]

\* C14: two analyze_credits calls that run concurrently, their passes
\* interleaved at any point, each have after every pass and at their return
\* exactly what they have when run alone: neither reads what the other
\* writes, and the rounding of neither depends on the other.
C14_ConcurrentCallsAsAlone ==
    /\ pc \in {"loop", "done", "failed"} => AsAlone(Frame)
    /\ AsAlone(other)

\* both calls are under way on different histories, each with a pass done
\* and a total of its own, and the other call goes on to return
C14_Witness ==
    /\ pc = "loop" /\ i = 2 /\ Len(history) = 2
    /\ other.pc = "done" /\ Len(other.history) = 2
    /\ other.history # history
    /\ total_savings # Zero /\ other.total_savings # Zero
    /\ total_savings # other.total_savings

\* the spellings of Simples Nacional among the provider regimes
SimplesSpellings ==
    {<<"S", "i", "m", "p", "l", "e", "s", " ", "N", "a", "c", "i", "o", "n", "a", "l">>,
     <<"s", "i", "m", "p", "l", "e", "s", " ", "n", "a", "c", "i", "o", "n", "a", "l">>,
     <<"S", "I", "M", "P", "L", "E", "S", "_", "N", "A", "C", "I", "O", "N", "A", "L">>,
     <<"S", "i", "m", "p", "l", "e", "s", "_", "N", "a", "c", "i", "o", "n", "a", "l">>}

\* C15: calculate_retentions_on_invoice(value, provider_regime, city rate):
\* for a provider under any spelling of Simples Nacional CSRF = 0 and
\* IRRF = 0 with a warning; otherwise CSRF = value x 4.65% rounded half-up,
\* replaced by 0 with a warning when the rounded amount is below 10.00
\* (10.00 itself is retained), and IRRF = value x 1.5%; always
\* INSS = value x 11%, ISS = value x city rate, and total_liquid = value
\* less the four retentions.
C15_RetentionsOnInvoice ==
    Returned("calculate_retentions_on_invoice") =>
        LET v       == Cents(call.amount)
            simples == call.provider_regime \in SimplesSpellings
            csrf    == HalfUpDiv(v * 465, 10000)
            CSRF    == IF simples \/ csrf < 1000 THEN 0 ELSE csrf
            IRRF    == IF simples THEN 0 ELSE HalfUpDiv(v * 15, 1000)
            INSS    == HalfUpDiv(v * 11, 100)
            ISS     == HalfUpDiv(v * call.city_rate.k, 10^(call.city_rate.e + 2))
            r       == ret.retentions
        IN  /\ \A name \in DOMAIN r : WholeCents(r[name])
            /\ Cents(r.CSRF) = CSRF
            /\ Cents(r.IRRF) = IRRF
            /\ Cents(r.INSS) = INSS
            /\ Cents(r.ISS) = ISS
            /\ Cents(ret.total_liquid) = v - (CSRF + IRRF + INSS + ISS)
            /\ (simples \/ csrf < 1000) => Len(ret.warnings) = 1
            /\ (simples /\ csrf < 1000) => ret.warnings = <<WARN_SIMPLES>>

\* a provider outside Simples Nacional whose CSRF rounds to exactly 10.00 and
\* is retained
C15_Witness ==
    /\ Returned("calculate_retentions_on_invoice")
    /\ call.provider_regime \notin SimplesSpellings
    /\ ret.retentions.CSRF = Money(10, 0)
    /\ ret.warnings = <<>>

\* the regime a string names, however the callers write it
NamesSimples(regime) == regime \in {"Simples Nacional", "SIMPLES_NACIONAL"}

NamesLucroReal(regime) == regime \in {"Lucro Real", "LUCRO_REAL"}

\* revenue of period k in cents
RevenueCents(k) == Cents(RevDecimal(history[k]))

\* C16: for every period with revenue > 0, an EXCLUSAO_ICMS opportunity is
\* emitted if and only if the regime the period used is not Simples
\* Nacional; its value is revenue x 18% x r, with r = 9.25% when the regime
\* used is Lucro Real and 3.65% otherwise, and its risk is LOW.
C16_ExclusaoIcms ==
    \A k \in 1..Processed :
        RevenueCents(k) > 0 =>
            LET used == UsedRegime(history[k])
                r    == IF NamesLucroReal(used) THEN 925 ELSE 365
            IN  IF NamesSimples(used) THEN OppsAt(k, "EXCLUSAO_ICMS") = {}
                ELSE /\ Cardinality(OppsAt(k, "EXCLUSAO_ICMS")) = 1
                     /\ \A j \in OppsAt(k, "EXCLUSAO_ICMS") :
                           /\ opportunities[j].value = Exact8(RevenueCents(k) * 18 * r)
                           /\ opportunities[j].risk = "LOW"

\* C17: for every period, a CREDITO_INSUMO opportunity is emitted if and
\* only if simulate_regimes recommends Lucro Real for the period and finds
\* total credits > 0; its value is those credits and its risk LOW, whether
\* or not a REGIME_MISMATCH was emitted for the period.
C17_CreditoInsumo ==
    \A k \in 1..Processed :
        LET sim == SimOf(k)
        IN  IF sim.recommendation = "Lucro Real" /\ DGt(sim.credits_found_lr, Zero)
            THEN /\ Cardinality(OppsAt(k, "CREDITO_INSUMO")) = 1
                 /\ \A j \in OppsAt(k, "CREDITO_INSUMO") :
                       /\ opportunities[j].value = sim.credits_found_lr
                       /\ opportunities[j].risk = "LOW"
            ELSE OppsAt(k, "CREDITO_INSUMO") = {}

\* a finished call with a period that gave a CREDITO_INSUMO without a
\* REGIME_MISMATCH and a period that gave both
C17_Witness ==
    /\ pc = "done"
    /\ \E k \in 1..Len(history) :
          OppsAt(k, "CREDITO_INSUMO") # {} /\ OppsAt(k, "REGIME_MISMATCH") = {}
    /\ \E k \in 1..Len(history) :
          OppsAt(k, "CREDITO_INSUMO") # {} /\ OppsAt(k, "REGIME_MISMATCH") # {}

\* C18 as stated: calculate_inss_patronal(x, regime) returns 0 for every
\* payroll x when regime is "Simples Nacional", and x x 20% rounded half-up
\* to 2 decimals for the other regimes.
C18_InssPatronal_DisplayName ==
    Returned("calculate_inss_patronal") =>
        /\ WholeCents(ret.amount)
        /\ Cents(ret.amount) =
               IF call.regime = "Simples Nacional" THEN 0
               ELSE HalfUpDiv(Mills(call.amount) * 2, 100)

\* C18: calculate_inss_patronal(x, regime) returns 0 for every payroll x when
\* regime is the identifier "SIMPLES_NACIONAL", and x x 20% rounded half-up
\* to 2 decimals for every other regime, "Simples Nacional" among them.
C18_InssPatronal_Identifier ==
    Returned("calculate_inss_patronal") =>
        /\ WholeCents(ret.amount)
        /\ Cents(ret.amount) =
               IF call.regime = "SIMPLES_NACIONAL" THEN 0
               ELSE HalfUpDiv(Mills(call.amount) * 2, 100)

\* a payroll under the regime "Simples Nacional" whose contribution, half a
\* cent, is rounded up to a cent
C18_Witness ==
    /\ Returned("calculate_inss_patronal")
    /\ call.regime = "Simples Nacional"
    /\ Mills(call.amount) = 25
    /\ ret.amount = Money(0, 1)

\* C19 as stated: with the city rate given as a fraction of revenue,
\* calculate_iss(revenue, rate) returns revenue x rate rounded half-up to 2
\* decimals.
C19_IssRateAsFraction ==
    Returned("calculate_iss") =>
        /\ WholeCents(ret.amount)
        /\ Cents(ret.amount) =
               HalfUpDiv(Cents(call.amount) * call.city_rate.k, 10^call.city_rate.e)

\* C19 amended: with the city rate given as a percentage (default 5.0, that
\* is 5%), calculate_iss(revenue, rate) returns revenue x rate / 100 rounded
\* half-up to 2 decimals, for every non-negative revenue.
C19_IssRateAsPercentage ==
    (Returned("calculate_iss") /\ NonNegative(call.amount)) =>
        /\ WholeCents(ret.amount)
        /\ Cents(ret.amount) =
               HalfUpDiv(Cents(call.amount) * call.city_rate.k, 10^(call.city_rate.e + 2))

\* a revenue of 0.10 at the default rate: half a cent of tax, rounded up
C19_Witness ==
    /\ Returned("calculate_iss")
    /\ call.city_rate = CITY_RATE_DEFAULT
    /\ call.amount = Money(0, 10)
    /\ ret.amount = Money(0, 1)

\* the identifiers the calculators compare with, and a string that names no
\* regime in either way of writing them
RegimeIdentifiers == {"SIMPLES_NACIONAL", "LUCRO_PRESUMIDO", "LUCRO_REAL"}

Unrecognized(regime) == regime \notin (RegimeIdentifiers \cup RegimeNames)

WellFormed(month_data) == Sanitized(month_data) = month_data

\* C20: a regime string that is no recognized identifier makes no calculator
\* and no analysis raise: calculate_pis_cofins grants no credits for it
\* (total_credits = 0) even with a breakdown of eligible categories, and
\* analyze_credits applies the cumulative rate of 3.65% to a period whose
\* paid_regime is unrecognized.
C20_UnrecognizedRegime ==
    /\ (Returned("calculate_pis_cofins") /\ call.regime \notin RegimeIdentifiers) =>
           ret.total_credits = Zero
    /\ (pc = "failed" /\ i <= Len(history)) => ~WellFormed(history[i])
    /\ \A k \in 1..Processed :
           (Unrecognized(UsedRegime(history[k])) /\ RevenueCents(k) > 0) =>
               /\ \A j \in OppsAt(k, "EXCLUSAO_ICMS") :
                     opportunities[j].value = Exact8(RevenueCents(k) * 18 * 365)
               /\ \A j \in OppsAt(k, "MONOFASICO") :
                     opportunities[j].value = Exact8(RevenueCents(k) * 5 * 365)
               /\ OppsAt(k, "EXCLUSAO_ICMS") # {}
               /\ OppsAt(k, "MONOFASICO") # {}

\* a finished call with a period whose paid_regime names no regime and that
\* has credits to its name in the breakdown
C20_Witness ==
    /\ pc = "done"
    /\ \E k \in 1..Len(history) :
          /\ Unrecognized(UsedRegime(history[k]))
          /\ OppsAt(k, "EXCLUSAO_ICMS") # {}
          /\ OppsAt(k, "CREDITO_INSUMO") # {}


\* ------------------------------------------------------------------------
\* Properties (C21-C30)
\* ------------------------------------------------------------------------

AllParse(ps) == \A j \in 1..Len(ps) : strptime(ps[j]).ok

\* the labels of ps that no label of ps is earlier (later) than
Earliest(ps) == {ps[j] : j \in {j \in 1..Len(ps) : \A k \in 1..Len(ps) : DateKey(ps[j]) <= DateKey(ps[k])}}

Latest(ps) == {ps[j] : j \in {j \in 1..Len(ps) : \A k \in 1..Len(ps) : DateKey(ps[k]) <= DateKey(ps[j])}}

\* ord(c) of the characters the labels are written with
CodePoint(c) ==
    CASE c = " " -> 32 [] c = "/" -> 47 [] c = "A" -> 65 [] c = "N" -> 78 [] c = "a" -> 97
      [] OTHER -> 48 + DigitVal(c)

\* x <= y in the order of Python's str
RECURSIVE LexLeq(_, _)
LexLeq(x, y) ==
    IF x = <<>> THEN TRUE
    ELSE IF y = <<>> THEN FALSE
    ELSE IF Head(x) = Head(y) THEN LexLeq(Tail(x), Tail(y))
    ELSE CodePoint(Head(x)) < CodePoint(Head(y))

LexFirst(ps) == CHOOSE x \in {ps[j] : j \in 1..Len(ps)} : \A k \in 1..Len(ps) : LexLeq(x, ps[k])

LexLast(ps) == CHOOSE x \in {ps[j] : j \in 1..Len(ps)} : \A k \in 1..Len(ps) : LexLeq(ps[k], x)

\* the range is '<earliest> a <latest>' when every label parses
Chronological(ps, range) ==
    \E first \in Earliest(ps), last \in Latest(ps) : range = Joined(first, last)

\* a call that failed did so inside the loop, not while computing the range
RangeNeverRaises == pc = "failed" => i <= Len(history)

\* C21 as stated: for a non-empty history the period_range is '<earliest> a
\* <latest>' when every label parses as month/year, and otherwise it joins the
\* lexicographically first and last labels; computing it never raises.
C21_PeriodRange_Lexicographic ==
    /\ RangeNeverRaises
    /\ pc = "done" /\ history # <<>> =>
          IF AllParse(periods) THEN Chronological(periods, period_str)
          ELSE period_str = Joined(LexFirst(periods), LexLast(periods))

\* C21 amended: for a non-empty history the period_range is '<earliest> a
\* <latest>' when every label parses as month/year, whatever the order of the
\* input, and otherwise it joins the first and the last label of the input;
\* computing it never raises.
C21_PeriodRange_InputOrder ==
    /\ RangeNeverRaises
    /\ pc = "done" /\ history # <<>> =>
          IF AllParse(periods) THEN Chronological(periods, period_str)
          ELSE period_str = Joined(periods[1], periods[Len(periods)])

\* a history whose first label does not parse and sorts after its last one
C21_Witness ==
    /\ pc = "done" /\ Len(history) = 2
    /\ periods = <<LABEL_DEFAULT, Jan24>>
    /\ ~AllParse(periods) /\ LexFirst(periods) = Jan24
    /\ period_str = Joined(LABEL_DEFAULT, Jan24)

\* the four categories the code names as giving credit, and all six
EligibleSum(d) ==
    DAdd(DAdd(DAdd(to_decimal(d["energia_eletrica"]), to_decimal(d["insumos_diretos"])),
              to_decimal(d["aluguel_predios"])), to_decimal(d["maquinas_equipamentos"]))

EveryCategorySum(d) ==
    DAdd(DAdd(EligibleSum(d), to_decimal(d["material_escritorio"])), to_decimal(d["outros"]))

PisCredit(d) == Mul(EligibleSum(d), [k |-> 165, e |-> 4])

CofinsCredit(d) == Mul(EligibleSum(d), [k |-> 760, e |-> 4])

\* the Lucro Real total of a request whose profit is taken net of costs
LucroRealTotal(revenue, payroll, d, costs) ==
    LET pc_lr == calculate_pis_cofins(revenue, "LUCRO_REAL", d)
        ir_lr == calculate_irrf_csll(revenue, costs, "LUCRO_REAL", TRUE)
    IN  DAdd(DAdd(DAdd(DAdd(DAdd(calculate_inss_patronal(payroll, "LUCRO_REAL"), pc_lr.pis),
             pc_lr.cofins), ir_lr.irpj), ir_lr.csll), calculate_iss(revenue, RATE_ISS_DEFAULT))

\* C22: under Lucro Real calculate_pis_cofins takes its credits on the sum of
\* energia_eletrica, insumos_diretos, aluguel_predios and maquinas_equipamentos
\* only (1.65% and 7.60% of it, total_credits their sum, to the cent); under
\* Lucro Presumido and Simples Nacional total_credits is 0 whatever the
\* breakdown; and simulate_regimes subtracts the costs of every category,
\* eligible or not, from revenue for the Lucro Real IRPJ/CSLL base.
C22_CreditBaseAndTotalCosts ==
    /\ (Returned("calculate_pis_cofins") /\ call.regime = "LUCRO_REAL") =>
          /\ ret.total_credits =
                 QuantizeHalfUp(DAdd(PisCredit(call.costs), CofinsCredit(call.costs)))
          /\ ret.pis = QuantizeHalfUp(DMax(DSub(Mul(call.amount, [k |-> 165, e |-> 4]),
                                              PisCredit(call.costs)), Zero))
          /\ ret.cofins = QuantizeHalfUp(DMax(DSub(Mul(call.amount, [k |-> 760, e |-> 4]),
                                                 CofinsCredit(call.costs)), Zero))
    /\ (Returned("calculate_pis_cofins")
          /\ call.regime \in {"LUCRO_PRESUMIDO", "SIMPLES_NACIONAL"}) =>
          ret.total_credits = Zero
    /\ (pc = "sim_done" /\ sim_in.costs.t = "dict") =>
          LET d == sim_in.costs.d
          IN  /\ sim_out.inputs.total_costs = EveryCategorySum(d)
              /\ sim_out.credits_found_lr =
                     QuantizeHalfUp(DAdd(PisCredit(d), CofinsCredit(d)))
              /\ sim_out.results[LR] =
                     QuantizeDefault(LucroRealTotal(sim_out.inputs.revenue,
                                                    sim_out.inputs.payroll, d,
                                                    EveryCategorySum(d)))

\* simulate_regimes has answered a request whose breakdown holds a category
\* without credit beside categories with credit, the revenue above the costs
C22_Witness ==
    /\ pc = "sim_done" /\ sim_in.costs.t = "dict"
    /\ DGt(to_decimal(sim_in.costs.d["material_escritorio"]), Zero)
    /\ DGt(EligibleSum(sim_in.costs.d), Zero)
    /\ DGt(sim_out.inputs.total_costs, EligibleSum(sim_in.costs.d))
    /\ DGt(sim_out.inputs.revenue, sim_out.inputs.total_costs)
    /\ DGt(sim_out.credits_found_lr, Zero)

\* the bases of IRPJ and CSLL by regime
BaseIr(revenue, costs, regime, is_service) ==
    CASE regime = "LUCRO_PRESUMIDO" ->
             Mul(revenue, IF is_service THEN [k |-> 32, e |-> 2] ELSE [k |-> 8, e |-> 2])
      [] regime = "LUCRO_REAL" -> DMax(DSub(revenue, costs), Zero)

BaseCsll(revenue, costs, regime) ==
    CASE regime = "LUCRO_PRESUMIDO" -> Mul(revenue, [k |-> 32, e |-> 2])
      [] regime = "LUCRO_REAL" -> DMax(DSub(revenue, costs), Zero)

\* C23: calculate_irrf_csll returns irpj = base_ir x 15%, plus (base_ir -
\* 20000) x 10% only when base_ir > 20000, and csll = base_csll x 9%, each
\* rounded half-up to 2 decimals; for Lucro Presumido base_ir is 32% of revenue
\* for a service and 8% otherwise and base_csll 32% of revenue in both cases;
\* for Lucro Real both bases are max(revenue - total costs, 0); for Simples
\* Nacional both results are 0.
C23_IrpjCsll ==
    Returned("calculate_irrf_csll") =>
        /\ call.regime = "SIMPLES_NACIONAL" => ret.irpj = Zero /\ ret.csll = Zero
        /\ call.regime \in {"LUCRO_PRESUMIDO", "LUCRO_REAL"} =>
              LET base_ir   == BaseIr(call.amount, call.total_costs, call.regime,
                                      call.is_service)
                  base_csll == BaseCsll(call.amount, call.total_costs, call.regime)
                  basic     == Mul(base_ir, [k |-> 15, e |-> 2])
                  surtax    == Mul(DSub(base_ir, Money(20000, 0)), [k |-> 10, e |-> 2])
              IN  /\ ret.irpj = QuantizeHalfUp(IF DGt(base_ir, Money(20000, 0))
                                               THEN DAdd(basic, surtax) ELSE basic)
                  /\ ret.csll = QuantizeHalfUp(Mul(base_csll, [k |-> 9, e |-> 2]))
                  /\ base_ir = Money(20000, 0) => ret.irpj = Money(3000, 0)
        /\ (call.regime = "LUCRO_REAL" /\ DGt(call.total_costs, call.amount)) =>
              ret.irpj = Zero /\ ret.csll = Zero

\* calculate_irrf_csll has answered for a Lucro Presumido company that is not
\* a service and whose IR base is above the threshold
C23_Witness ==
    /\ Returned("calculate_irrf_csll")
    /\ call.regime = "LUCRO_PRESUMIDO" /\ ~call.is_service
    /\ call.amount = Money(100000, 0)
    /\ ret.irpj = Money(1200, 0)
    /\ ret.csll = Money(2880, 0)

\* a is b to the nearest cent
NearestCent(a, b) ==
    /\ WholeCents(a)
    /\ ~DGt(DSub(a, b), Dec(0, HalfCent))
    /\ ~DGt(DSub(b, a), Dec(0, HalfCent))

\* C24: in simulate_regimes the Simples Nacional total is 10% of revenue for
\* every revenue up to and including 3600000 and 30% of revenue above it, to
\* the cent, whatever the payroll and the costs of the request.
C24_SimplesTotal ==
    pc = "sim_done" =>
        LET revenue == to_decimal(sim_in.revenue)
            share   == IF DGt(revenue, Money(3600000, 0)) THEN [k |-> 30, e |-> 2]
                       ELSE [k |-> 10, e |-> 2]
        IN  NearestCent(sim_out.results[SN], Mul(revenue, share))

\* simulate_regimes has answered a request with a revenue of exactly 3600000,
\* with payroll and costs
C24_Witness ==
    /\ pc = "sim_done"
    /\ sim_in.revenue = Num(Money(3600000, 0))
    /\ DGt(sim_out.inputs.payroll, Zero)
    /\ DGt(sim_out.inputs.total_costs, Zero)
    /\ sim_out.results[SN] = Money(360000, 0)

\* C25: the savings returned by simulate_regimes is the largest of the three
\* totals reported in results less the smallest of them.
C25_SavingsIsSpreadOfReportedTotals ==
    pc = "sim_done" =>
        sim_out.savings = DSub(MaxTotal(sim_out.results), MinTotal(sim_out.results))

\* what the two revenue theses emitted for period k: type, value and risk
ThesesAt(k) ==
    {[type |-> opportunities[j].type, value |-> opportunities[j].value,
      risk |-> opportunities[j].risk] :
        j \in OppsAt(k, "EXCLUSAO_ICMS") \cup OppsAt(k, "MONOFASICO")}

SameRevenueAndRegime(a, b) ==
    RevDecimal(a) = RevDecimal(b) /\ UsedRegime(a) = UsedRegime(b)

\* C26: every period with revenue > 0 yields exactly one MONOFASICO
\* opportunity, whatever its used regime, of value revenue x 5% x r (r = 9.25%
\* when the used regime is LUCRO_REAL, else 3.65%) and risk MEDIUM; and what
\* EXCLUSAO_ICMS and MONOFASICO yield for a period is the same for any two
\* periods of equal revenue and used regime, whatever their costs, payroll,
\* paid_amount and recommended regime.
C26_Monofasico ==
    /\ \A k \in 1..Processed :
          RevenueCents(k) > 0 =>
              LET r == IF UsedRegime(history[k]) = "LUCRO_REAL" THEN 925 ELSE 365
              IN  /\ Cardinality(OppsAt(k, "MONOFASICO")) = 1
                  /\ \A j \in OppsAt(k, "MONOFASICO") :
                        /\ opportunities[j].value = Exact8(RevenueCents(k) * 5 * r)
                        /\ opportunities[j].risk = "MEDIUM"
    /\ \A j, k \in 1..Processed :
          SameRevenueAndRegime(history[j], history[k]) => ThesesAt(j) = ThesesAt(k)

\* a finished call with two periods of equal revenue and used regime, one
\* with a payroll and no costs under a Simples Nacional recommendation, the
\* other with a breakdown under a Lucro Real recommendation
C26_Witness ==
    /\ pc = "done" /\ Len(history) = 2
    /\ SameRevenueAndRegime(history[1], history[2])
    /\ RevenueCents(1) > 0
    /\ history[1].costs.t # "dict" /\ history[2].costs.t = "dict"
    /\ DGt(to_decimal(history[1].payroll), Zero)
    /\ OppsAt(1, "CREDITO_INSUMO") = {} /\ OppsAt(2, "CREDITO_INSUMO") # {}
    /\ OppsAt(1, "MONOFASICO") # {} /\ OppsAt(2, "MONOFASICO") # {}

\* C27: a period yields a CREDITO_MARKETING opportunity if and only if its
\* costs are a breakdown with the category 'outros' and outros x r > 100 (r =
\* 9.25% when the used regime is LUCRO_REAL, else 3.65%); its value is outros
\* x r and its risk HIGH; a period whose costs are one amount yields none.
C27_CreditoMarketing ==
    \A k \in 1..Processed :
        LET costs    == history[k].costs
            has      == costs.t = "dict" /\ costs.d["outros"].t # "absent"
            outros   == to_decimal(costs.d["outros"])
            r        == IF UsedRegime(history[k]) = "LUCRO_REAL" THEN 925 ELSE 365
            \* outros x r / 10^4 > 100, in cents
            above    == Cents(outros) * r > 100 * 100 * 10^4
        IN  /\ OppsAt(k, "CREDITO_MARKETING") # {} <=> (has /\ above)
            /\ Cardinality(OppsAt(k, "CREDITO_MARKETING")) <= 1
            /\ \A j \in OppsAt(k, "CREDITO_MARKETING") :
                  /\ opportunities[j].value = Mul(outros, [k |-> r, e |-> 4])
                  /\ opportunities[j].risk = "HIGH"
            /\ costs.t # "dict" => OppsAt(k, "CREDITO_MARKETING") = {}

\* a finished call with a period under Lucro Presumido whose 'outros' of 3000
\* gives 109.50, above the floor only at the rate of 3.65%
C27_Witness ==
    /\ pc = "done"
    /\ \E k \in 1..Len(history) :
          /\ UsedRegime(history[k]) = "LUCRO_PRESUMIDO"
          /\ history[k].costs.t = "dict"
          /\ history[k].costs.d["outros"] = Num(Money(3000, 0))
          /\ \E j \in OppsAt(k, "CREDITO_MARKETING") :
                opportunities[j].value = Money(109, 50)

OpportunityTypes ==
    {"REGIME_MISMATCH", "CREDITO_INSUMO", "EXCLUSAO_ICMS", "MONOFASICO", "CREDITO_MARKETING"}

\* the least value an opportunity of the type must exceed, and its risk
ThresholdOf(type) ==
    CASE type = "REGIME_MISMATCH"   -> Money(10, 0)
      [] type = "CREDITO_MARKETING" -> Money(100, 0)
      [] OTHER                      -> Zero

RiskOf(type) ==
    CASE type \in {"REGIME_MISMATCH", "CREDITO_INSUMO", "EXCLUSAO_ICMS"} -> "LOW"
      [] type = "MONOFASICO"        -> "MEDIUM"
      [] type = "CREDITO_MARKETING" -> "HIGH"

\* C28: every opportunity analyze_credits returns is of one of the five
\* types, has a value strictly above the threshold of its type (10 for
\* REGIME_MISMATCH, 100 for CREDITO_MARKETING, 0 for the others) and carries
\* the risk of its type.
C28_ValueAboveThresholdAndRisk ==
    pc = "done" =>
        \A j \in 1..Len(opportunities) :
            /\ opportunities[j].type \in OpportunityTypes
            /\ DGt(opportunities[j].value, ThresholdOf(opportunities[j].type))
            /\ opportunities[j].risk = RiskOf(opportunities[j].type)

\* a finished call that returns opportunities of the five types, a regime
\* mismatch of 10.01 among them
C28_Witness ==
    /\ pc = "done"
    /\ {opportunities[j].type : j \in 1..Len(opportunities)} = OpportunityTypes
    /\ \E j \in 1..Len(opportunities) :
          opportunities[j].type = "REGIME_MISMATCH" /\ opportunities[j].value = Money(10, 1)

\* the place of a risk in the order LOW, MEDIUM, HIGH
RiskRank(risk) ==
    CASE risk = "LOW" -> 1 [] risk = "MEDIUM" -> 2 [] risk = "HIGH" -> 3

\* rows ordered by risk LOW, MEDIUM, HIGH and by type within a risk
LowMediumHigh(rows) ==
    \A a, b \in 1..Len(rows) :
        a < b =>
            \/ RiskRank(rows[a].risk) < RiskRank(rows[b].risk)
            \/ /\ rows[a].risk = rows[b].risk
               /\ TypeKey(rows[a].type) <= TypeKey(rows[b].type)

\* rows holds the elements of opps, each as often as opps does
SameElements(rows, opps) ==
    /\ Len(rows) = Len(opps)
    /\ \A x \in {opps[j] : j \in 1..Len(opps)} :
          Cardinality({j \in 1..Len(opps) : opps[j] = x})
              = Cardinality({j \in 1..Len(rows) : rows[j] = x})

\* C29: generate_report lists the opportunities in its detail section ordered
\* by risk LOW first, then MEDIUM, then HIGH, ties broken by type, and leaves
\* the order of analysis_result['opportunities'] as it was.
C29_ReportOrder ==
    [][(pc = "done" /\ pc' = "reported") =>
          /\ opportunities' = opportunities
          /\ SameElements(sorted_opportunities', opportunities)
          /\ LowMediumHigh(sorted_opportunities')]_vars

\* opportunities of a history that follows m periods of another
Following(opps, m) == [j \in 1..Len(opps) |-> [opps[j] EXCEPT !.src = @ + m]]

\* C30: analyze_credits is additive over concatenation: for a history h1
\* followed by h2 the opportunities are those of analyze_credits(h1) followed
\* by those of analyze_credits(h2), and total_savings and each of the three
\* regime_comparison entries are the sums of those of the two results.
C30_AdditiveOverConcatenation ==
    pc = "done" =>
        \A m \in 0..Len(history) :
            LET n  == Len(history) - m
                h1 == SubSeq(history, 1, m)
                h2 == SubSeq(history, m + 1, Len(history))
            IN  /\ opportunities = AloneOpps(h1, m) \o Following(AloneOpps(h2, n), m)
                /\ total_savings = DAdd(AloneSavings(h1, m), AloneSavings(h2, n))
                /\ \A r \in {"Simples Nacional", "Lucro Presumido", "Lucro Real"} :
                      regime_totals[r] = DAdd(AloneTotals(h1, m)[r], AloneTotals(h2, n)[r])

\* a finished call on two different periods, each with opportunities and
\* savings of its own
C30_Witness ==
    /\ pc = "done" /\ Len(history) = 2
    /\ history[1] # history[2]
    /\ AloneOpps(<<history[1]>>, 1) # <<>> /\ AloneOpps(<<history[2]>>, 1) # <<>>
    /\ DGt(AloneSavings(<<history[1]>>, 1), Zero)
    /\ DGt(AloneSavings(<<history[2]>>, 1), AloneSavings(<<history[1]>>, 1))
    /\ DGt(total_savings, AloneSavings(<<history[2]>>, 1))
    /\ Len(opportunities) > Len(AloneOpps(<<history[2]>>, 1))

=============================================================================
